---- MODULE Spec2Model ----
(***************************************************************************)
(* The analytics slice of the marketing backend: the Analytics collection, *)
(* the four functions of analytics.service.js and the four handlers of     *)
(* analytics.controller.js that call them; with it the routers that mount  *)
(* the handlers, the metrics-collection agent, the company, content, user  *)
(* and integration handlers that share the controllers' error handling,    *)
(* registration and login, and the strategy and content agents.            *)
(*                                                                         *)
(* The collection is a bag of documents: the store keeps no order and      *)
(* enforces no uniqueness, so two equal documents are two rows.  Dates are *)
(* day numbers, cost is counted in whole currency units, and a missing     *)
(* identifier or date (undefined or "" in the request) is NoId or NoDate.  *)
(***************************************************************************)
EXTENDS Bags, FiniteSets, Integers, Sequences, TLC

VARIABLES
    store,       \* the Analytics collection: a bag of documents
    req,         \* the request the last handler served
    res,         \* the response it sent: [status, body]
    dbUp,        \* whether the store answers the calls of that handler
    dbCalls,     \* the number of store calls the last handler made
    matched,     \* the documents the store returned to that call
    averageCPC,  \* getRecommendations' local averageCPC, a fraction <<n, d>>
    url,         \* the path of the request the app is routing, in segments
    companies,   \* the Company collection: a set of documents
    contents,    \* the Content collection
    integrations,\* the Integration collection
    clock,       \* the time new Date() and Date.now return
    run,         \* the outcome of the agent's last collectCampaignMetrics
    users,       \* the User collection
    pending,     \* the register calls in flight, by connection
    job          \* the outcome of the last strategy or content agent call

others == <<url, companies, contents, integrations, clock, run, users,
            pending, job>>

vars == <<store, req, res, dbUp, dbCalls, matched, averageCPC, url, companies,
          contents, integrations, clock, run, users, pending, job>>

----------------------------------------------------------------------------
(* Bounds and value domains                                                *)

MaxRecords == 3          \* documents in the collection under SpecOverview
MaxChannelRecords == 2   \* ... under SpecChannels
MaxCampaignRecords == 3  \* ... under SpecCampaign
MaxFilterRecords == 2    \* ... under SpecFilters
MaxRecent == 8           \* ... under SpecRecent
MaxThresholdRecords == 3 \* ... under SpecThreshold
MaxWindowRecords == 8    \* ... under SpecWindow
MaxStored == 2           \* ... under SpecAnalytics
MaxContents == 2         \* content items in the collection
MaxClock == 3            \* the latest time the clock reaches
MaxLines == 3            \* the lines of an LLM completion
MaxTasks == 3            \* the tasks of a plan

NoId == "undefined"      \* a missing identifier: falsy in `if (companyId)`
NoDate == 0              \* a missing start or end: falsy in `start && end`

CampaignIds == {"c1", "c2"}
CompanyIds == {"co1", "co2"}
Dates == {1, 2}
Channels == {"GoogleAds", "Facebook"}

\* <<impressions, clicks, conversions, cost>> of one channel on one day
Metrics == {<<10, 0, 1, 2>>, <<20, 3, 0, 5>>}
RecentMetrics == {<<10, 0, 1, 2>>, <<10, 1, 1, 2>>, <<10, 2, 1, 2>>}
ThresholdMetrics ==
    {<<10, 1, 1, 1>>, <<10, 1, 1, 2>>, <<10, 0, 1, 3>>, <<10, 2, 1, 5>>}


----------------------------------------------------------------------------
(* The Analytics model                                                     *)

\* A document as the schema stores it: campaignId, date and channel are
\* required, companyId is optional, the four metrics are numbers.
AnalyticsDoc(campaignId, companyId, date, channel, m) ==
    [campaignId |-> campaignId, companyId |-> companyId, date |-> date,
     channel |-> channel, impressions |-> m[1], clicks |-> m[2],
     conversions |-> m[3], cost |-> m[4]]

\* The documents saved under each specification.
OverviewDocs ==
    {AnalyticsDoc("c1", co, d, "GoogleAds", m) :
        co \in {"co1", NoId}, d \in Dates, m \in Metrics}

ChannelDocs ==
    {AnalyticsDoc(ca, co, d, ch, <<20, 3, 1, 5>>) :
        ca \in CampaignIds, co \in {"co1", NoId}, d \in Dates, ch \in Channels}

CampaignDocs ==
    {AnalyticsDoc(ca, "co1", d, ch, <<20, 3, 1, 5>>) :
        ca \in CampaignIds, d \in Dates, ch \in Channels}

FilterDocs ==
    {AnalyticsDoc(ca, co, d, "GoogleAds", <<20, 3, 1, 5>>) :
        ca \in CampaignIds, co \in {"co1", NoId}, d \in Dates}

RecentDocs ==
    {AnalyticsDoc("c1", "co1", d, "GoogleAds", m) :
        d \in Dates, m \in RecentMetrics}
    \cup {AnalyticsDoc("c2", "co1", 1, "GoogleAds", <<10, 1, 1, 2>>)}

----------------------------------------------------------------------------
ThresholdDocs ==
    {AnalyticsDoc("c1", "co1", d, "GoogleAds", m) :
        d \in Dates, m \in ThresholdMetrics}

WindowDocs ==
    {AnalyticsDoc("c1", "co1", d, "GoogleAds", m) :
        d \in Dates, m \in {<<10, 1, 1, 1>>, <<10, 1, 1, 5>>}}
    \cup {AnalyticsDoc("c2", "co1", 2, "GoogleAds", <<10, 1, 1, 5>>)}

StoredDocs ==
    {AnalyticsDoc(ca, "co1", d, "GoogleAds", <<20, 3, 1, 5>>) :
        ca \in CampaignIds, d \in Dates}

(* The store's query operators                                             *)

EmptyQuery == [k \in {} |-> NoId]

\* { $gte: new Date(start), $lte: new Date(end) }
DateRange(start, end) == [gte |-> start, lte |-> end]

\* One condition of a query document against one stored document.
FieldMatches(doc, key, cond) ==
    IF key = "date"
    THEN doc.date >= cond.gte /\ doc.date <= cond.lte
    ELSE doc[key] = cond

\* A query document selects the documents that meet all its conditions.
Matches(doc, query) ==
    \A key \in DOMAIN query : FieldMatches(doc, key, query[key])

\* $match / find(query): the documents of the collection the query selects.
Find(docs, query) ==
    [doc \in {d \in BagToSet(docs) : Matches(d, query)} |-> docs[doc]]

\* The order in which a cursor delivers a bag of documents.
RECURSIVE Scan(_)
Scan(docs) ==
    IF BagToSet(docs) = {} THEN <<>>
    ELSE LET doc == CHOOSE d \in BagToSet(docs) : TRUE
         IN  <<doc>> \o Scan(docs (-) SetToBag({doc}))

\* { $sum: "$field" } over the documents of one group.
RECURSIVE Sum(_, _)
Sum(docs, field) ==
    IF docs = <<>> THEN 0 ELSE Head(docs)[field] + Sum(Tail(docs), field)

\* $group with _id: null: one group holding every document, no group at all
\* when the pipeline delivers none.
GroupAll(docs) ==
    IF docs = <<>> THEN <<>>
    ELSE <<[totalImpressions |-> Sum(docs, "impressions"),
            totalClicks |-> Sum(docs, "clicks"),
            totalConversions |-> Sum(docs, "conversions"),
            totalCost |-> Sum(docs, "cost")]>>

\* A group that keeps the last document's metrics instead of adding them.
AccumulateLast(groups, doc) ==
    (doc.channel :>
        [totalImpressions |-> doc.impressions, totalClicks |-> doc.clicks,
         totalConversions |-> doc.conversions, totalCost |-> doc.cost])
    @@ groups

\* One more document added to the totals of its channel's group.
Accumulate(groups, doc) ==
    LET old == IF doc.channel \in DOMAIN groups THEN groups[doc.channel]
               ELSE [totalImpressions |-> 0, totalClicks |-> 0,
                     totalConversions |-> 0, totalCost |-> 0]
    IN  (doc.channel :>
            [totalImpressions |-> old.totalImpressions + doc.impressions,
             totalClicks |-> old.totalClicks + doc.clicks,
             totalConversions |-> old.totalConversions + doc.conversions,
             totalCost |-> old.totalCost + doc.cost]) @@ groups

\* Grouping that reports every known channel, zero-filled when unmet.
RECURSIVE GroupByChannelZeroFilled(_, _)
GroupByChannelZeroFilled(docs, groups) ==
    IF docs = <<>>
    THEN groups @@ [channel \in Channels |->
                       [totalImpressions |-> 0, totalClicks |-> 0,
                        totalConversions |-> 0, totalCost |-> 0]]
    ELSE GroupByChannelZeroFilled(Tail(docs), Accumulate(groups, Head(docs)))

\* $group with _id: "$channel": one group per channel value met.
RECURSIVE GroupByChannel(_, _)
GroupByChannel(docs, groups) ==
    IF docs = <<>> THEN groups
    ELSE GroupByChannel(Tail(docs), Accumulate(groups, Head(docs)))

\* The orders in which the members of a set may be delivered.
Orderings(S) ==
    {order \in [1..Cardinality(S) -> S] :
        \A i, j \in 1..Cardinality(S) : i # j => order[i] # order[j]}

\* $project: one row per group, in the order the groups are delivered.
Project(groups, order) ==
    [i \in 1..Len(order) |->
        [channel |-> order[i],
         impressions |-> groups[order[i]].totalImpressions,
         clicks |-> groups[order[i]].totalClicks,
         conversions |-> groups[order[i]].totalConversions,
         cost |-> groups[order[i]].totalCost]]

\* The sequences that hold each document of a bag as often as the bag does.
Arrangements(docs) ==
    {data \in [1..BagCardinality(docs) -> BagToSet(docs)] :
        \A doc \in BagToSet(docs) :
            Cardinality({i \in DOMAIN data : data[i] = doc}) = docs[doc]}

\* A sort that runs against the direction asked for.
SortedBackwards(docs, direction) ==
    {data \in Arrangements(docs) :
        \A i \in 1..(Len(data) - 1) :
            direction * data[i].date >= direction * data[i + 1].date}

\* sort({ date: direction }): the documents in date order, documents of
\* equal date in any order.
Sorted(docs, direction) ==
    {data \in Arrangements(docs) :
        \A i \in 1..(Len(data) - 1) :
            direction * data[i].date <= direction * data[i + 1].date}

\* sort({ date: -1 }) with the limit left off: every document.
MostRecentUnlimited(docs, k) == {docs}

\* sort({ date: -1 }).limit(k): k documents (all when there are fewer) none
\* of which is older than a document left out.
MostRecent(docs, k) ==
    {recent \in SubBag(docs) :
        /\ BagCardinality(recent) =
               IF BagCardinality(docs) < k THEN BagCardinality(docs) ELSE k
        /\ \A kept \in BagToSet(recent), left \in BagToSet(docs (-) recent) :
               kept.date >= left.date}

\* A cursor over documents sorted by date, latest first.
RECURSIVE ScanLatestFirst(_)
ScanLatestFirst(docs) ==
    IF BagToSet(docs) = {} THEN <<>>
    ELSE LET doc == CHOOSE d \in BagToSet(docs) :
                        \A e \in BagToSet(docs) : d.date >= e.date
         IN  <<doc>> \o ScanLatestFirst(docs (-) SetToBag({doc}))

----------------------------------------------------------------------------
(* JavaScript numbers: a quotient is kept as a fraction <<n, d>>, d > 0    *)

RECURSIVE GCD(_, _)
GCD(a, b) == IF b = 0 THEN a ELSE GCD(b, a % b)

Reduced(f) ==
    LET g == GCD(f[1], f[2])
    IN  IF g = 0 THEN f ELSE <<f[1] \div g, f[2] \div g>>

FracAdd(f, g) == Reduced(<<f[1] * g[2] + g[1] * f[2], f[2] * g[2]>>)
FracDiv(f, n) == Reduced(<<f[1], f[2] * n>>)
GreaterOrEqual(f, n) == f[1] >= n * f[2]

GreaterThan(f, n) == f[1] > n * f[2]

\* toFixed(2): the value rounded to hundredths, two decimals always shown.
ToFixed2(f) ==
    LET cents == (200 * f[1] + f[2]) \div (2 * f[2])
    IN  ToString(cents \div 100) \o "."
        \o ToString((cents % 100) \div 10) \o ToString(cents % 10)

----------------------------------------------------------------------------
(* analytics.service.js                                                    *)

\* JavaScript's `x || 0` on a number.
OrZero(x) == IF x = 0 THEN 0 ELSE x

\* getOverview with the company condition lost once a date range is given.
OverviewQueryDateOnly(params) ==
    IF params.start # NoDate /\ params.end # NoDate
    THEN "date" :> DateRange(params.start, params.end)
    ELSE IF params.companyId # NoId
    THEN "companyId" :> params.companyId ELSE EmptyQuery

\* The query getOverview builds from { companyId, start, end }.
OverviewQuery(params) ==
    (IF params.companyId # NoId
        THEN "companyId" :> params.companyId ELSE EmptyQuery)
    @@
    (IF params.start # NoDate /\ params.end # NoDate
        THEN "date" :> DateRange(params.start, params.end) ELSE EmptyQuery)

\* What a service call leaves behind: whether it threw, the value it
\* returned, the store calls it made and the documents they delivered.
Outcome(threw, value, calls, docs, cpc) ==
    [threw |-> threw, value |-> value, calls |-> calls, docs |-> docs,
     cpc |-> cpc]

NoCPC == <<0, 1>>

getOverview(docs, up, params) ==
    LET selected == Find(docs, OverviewQuery(params))
        aggregation == GroupAll(Scan(selected))
    IN  IF ~up THEN Outcome(TRUE, <<>>, 1, EmptyBag, NoCPC)
        ELSE IF Len(aggregation) = 0
        THEN Outcome(FALSE,
                     [impressions |-> 0, clicks |-> 0, conversions |-> 0,
                      cost |-> 0], 1, selected, NoCPC)
        ELSE LET result == aggregation[1]
             IN  Outcome(FALSE,
                         [impressions |-> OrZero(result.totalImpressions),
                          clicks |-> OrZero(result.totalClicks),
                          conversions |-> OrZero(result.totalConversions),
                          cost |-> OrZero(result.totalCost)],
                         1, selected, NoCPC)

\* JavaScript values of getCampaignAnalytics: null or an array.
Null == [type |-> "null", items |-> <<>>]
Array(items) == [type |-> "array", items |-> items]
\* `!value`: null is falsy, every array (the empty one too) is truthy.
Falsy(value) == value.type = "null"

\* getCampaignAnalytics applying a bound that is given alone: from `start`
\* on, or up to `end`.
CampaignQueryOpenRange(params) ==
    ("campaignId" :> params.campaignId)
    @@
    (IF params.start # NoDate \/ params.end # NoDate
        THEN "date" :> DateRange(params.start,
                                 IF params.end # NoDate THEN params.end
                                 ELSE params.start + 2)
        ELSE EmptyQuery)

\* The query getCampaignAnalytics builds from { campaignId, start, end }.
CampaignQuery(params) ==
    ("campaignId" :> params.campaignId)
    @@
    (IF params.start # NoDate /\ params.end # NoDate
        THEN "date" :> DateRange(params.start, params.end) ELSE EmptyQuery)

\* getCampaignAnalytics throwing on a missing campaignId, as its siblings do.
getCampaignAnalyticsThrowing(docs, up, params) ==
    IF params.campaignId = NoId \/ ~up
    THEN {Outcome(TRUE, Null, IF params.campaignId = NoId THEN 0 ELSE 1,
                  EmptyBag, NoCPC)}
    ELSE {Outcome(FALSE, Array(data), 1, Find(docs, CampaignQuery(params)),
                  NoCPC) :
             data \in Sorted(Find(docs, CampaignQuery(params)), 1)}

\* The outcomes of getCampaignAnalytics: one per order the sort may deliver.
getCampaignAnalytics(docs, up, params) ==
    IF params.campaignId = NoId
    THEN {Outcome(FALSE, Null, 0, EmptyBag, NoCPC)}
    ELSE IF ~up THEN {Outcome(TRUE, Null, 1, EmptyBag, NoCPC)}
    ELSE LET selected == Find(docs, CampaignQuery(params))
         IN  {Outcome(FALSE, Array(data), 1, selected, NoCPC) :
                 data \in Sorted(selected, 1)}

\* getChannelAnalytics with `else if` before the campaign condition.
ChannelQueryElseIf(params) ==
    (IF params.companyId # NoId
        THEN "companyId" :> params.companyId
        ELSE IF params.campaignId # NoId
        THEN "campaignId" :> params.campaignId ELSE EmptyQuery)
    @@
    (IF params.start # NoDate /\ params.end # NoDate
        THEN "date" :> DateRange(params.start, params.end) ELSE EmptyQuery)

\* The query getChannelAnalytics builds from
\* { companyId, campaignId, start, end }.
ChannelQuery(params) ==
    (IF params.companyId # NoId
        THEN "companyId" :> params.companyId ELSE EmptyQuery)
    @@
    (IF params.campaignId # NoId
        THEN "campaignId" :> params.campaignId ELSE EmptyQuery)
    @@
    (IF params.start # NoDate /\ params.end # NoDate
        THEN "date" :> DateRange(params.start, params.end) ELSE EmptyQuery)

\* The outcomes of getChannelAnalytics: one per order of the groups.
getChannelAnalytics(docs, up, params) ==
    IF ~up THEN {Outcome(TRUE, <<>>, 1, EmptyBag, NoCPC)}
    ELSE LET selected == Find(docs, ChannelQuery(params))
             groups == GroupByChannel(Scan(selected), EmptyQuery)
         IN  {Outcome(FALSE, Project(groups, order), 1, selected, NoCPC) :
                 order \in Orderings(DOMAIN groups)}

RecentLimit == 7
CpcThreshold == 2

\* reduce((acc, item) => acc + item.cost / (item.clicks || 1), 0)
RECURSIVE SumCPC(_)
SumCPC(data) ==
    IF data = <<>> THEN <<0, 1>>
    ELSE LET item == Head(data)
         IN  FracAdd(<<item.cost, IF item.clicks = 0 THEN 1 ELSE item.clicks>>,
                     SumCPC(Tail(data)))

\* Spend-weighted CPC: total cost over total clicks.
AverageCPCWeighted(recentData) ==
    Reduced(<<Sum(recentData, "cost"),
              IF Sum(recentData, "clicks") = 0 THEN 1
              ELSE Sum(recentData, "clicks")>>)

\* The average the recommendation branches on.
AverageCPC(recentData) == FracDiv(SumCPC(recentData), Len(recentData))

\* The overall recommendation cut to its first sentence.
GenericRecommendationsShort ==
    <<"Consider shifting budget to high-conversion channels.">>

GenericRecommendations ==
    <<"Consider shifting budget to high-conversion channels.",
      "Explore retargeting if conversions are below target.">>

NoDataRecommendation ==
    <<"No recent analytics data available for this campaign.">>

HighCPCRecommendation(campaignId, cpc) ==
    <<"Campaign " \o campaignId \o " has a high average CPC of $"
      \o ToFixed2(cpc)
      \o ". Consider refining keywords or targeting to reduce costs.">>

PerformingWellRecommendation(campaignId, cpc) ==
    <<"Campaign " \o campaignId
      \o " is performing well with an average CPC of $" \o ToFixed2(cpc)
      \o ". Consider increasing budget or expanding audience.">>

\* getRecommendations without its test for an empty result: 0 / 0 is NaN,
\* NaN > 2 is false and NaN.toFixed(2) is "NaN".
RecommendUnguarded(campaignId, recentData) ==
    IF Len(recentData) = 0
    THEN [value |-> <<"Campaign " \o campaignId
                      \o " is performing well with an average CPC of $NaN"
                      \o ". Consider increasing budget or expanding audience.">>,
          cpc |-> NoCPC]
    ELSE IF GreaterThan(AverageCPC(recentData), CpcThreshold)
    THEN [value |-> HighCPCRecommendation(campaignId, AverageCPC(recentData)),
          cpc |-> AverageCPC(recentData)]
    ELSE [value |-> PerformingWellRecommendation(campaignId,
                        AverageCPC(recentData)),
          cpc |-> AverageCPC(recentData)]

\* What getRecommendations makes of the documents it fetched: the value
\* it returns and its averageCPC.
Recommend(campaignId, recentData) ==
    IF Len(recentData) = 0
    THEN [value |-> NoDataRecommendation, cpc |-> NoCPC]
    ELSE IF GreaterThan(AverageCPC(recentData), CpcThreshold)
    THEN [value |-> HighCPCRecommendation(campaignId, AverageCPC(recentData)),
          cpc |-> AverageCPC(recentData)]
    ELSE [value |-> PerformingWellRecommendation(campaignId,
                        AverageCPC(recentData)),
          cpc |-> AverageCPC(recentData)]

\* The outcomes of getRecommendations: one per choice the limit may make
\* among documents of equal date.
getRecommendations(docs, up, campaignId) ==
    IF campaignId = NoId
    THEN {Outcome(FALSE, GenericRecommendations, 0, EmptyBag, NoCPC)}
    ELSE IF ~up THEN {Outcome(TRUE, <<>>, 1, EmptyBag, NoCPC)}
    ELSE {Outcome(FALSE, Recommend(campaignId, ScanLatestFirst(recent)).value,
                  1, recent, Recommend(campaignId, ScanLatestFirst(recent)).cpc) :
             recent \in MostRecent(Find(docs, "campaignId" :> campaignId),
                                   RecentLimit)}

----------------------------------------------------------------------------
(* analytics.controller.js                                                 *)

Request(handler, companyId, campaignId, start, end) ==
    [handler |-> handler, companyId |-> companyId, campaignId |-> campaignId,
     start |-> start, end |-> end]

Ok(data) == [status |-> 200, body |-> [success |-> TRUE, data |-> data]]
\* A failure response whose message carries the error's own text.
FailureLeaking(status, message) ==
    [status |-> status,
     body |-> [success |-> FALSE,
               message |-> message \o " MongoNetworkError: connect ECONNREFUSED"]]

Failure(status, message) ==
    [status |-> status, body |-> [success |-> FALSE, message |-> message]]
NoResponse == [status |-> 0]

\* A handler that deletes the documents its service call read.
RespondConsuming(request, up, outcome, response) ==
    /\ req' = request
    /\ res' = response
    /\ dbUp' = up
    /\ dbCalls' = outcome.calls
    /\ matched' = outcome.docs
    /\ averageCPC' = outcome.cpc
    /\ store' = store (-) outcome.docs
    /\ UNCHANGED others

\* The handler's response, with what the service call left behind.
Respond(request, up, outcome, response) ==
    /\ req' = request
    /\ res' = response
    /\ dbUp' = up
    /\ dbCalls' = outcome.calls
    /\ matched' = outcome.docs
    /\ averageCPC' = outcome.cpc
    /\ UNCHANGED store
    /\ UNCHANGED others

GetOverview(companyId, start, end, up) ==
    LET outcome == getOverview(store, up, [companyId |-> companyId,
                                           start |-> start, end |-> end])
    IN  Respond(Request("getOverview", companyId, NoId, start, end), up,
                outcome,
                IF outcome.threw
                THEN Failure(500, "Failed to retrieve analytics overview.")
                ELSE Ok(outcome.value))

GetCampaignAnalytics(campaignId, start, end, up) ==
    \E outcome \in getCampaignAnalytics(store, up,
                       [campaignId |-> campaignId, start |-> start,
                        end |-> end]) :
        Respond(Request("getCampaignAnalytics", NoId, campaignId, start, end),
                up, outcome,
                IF outcome.threw
                THEN Failure(500, "Failed to retrieve campaign analytics.")
                ELSE IF Falsy(outcome.value)
                THEN Failure(404, "No analytics found for campaign ID: "
                                      \o campaignId)
                ELSE Ok(outcome.value.items))

GetChannelAnalytics(companyId, campaignId, start, end, up) ==
    \E outcome \in getChannelAnalytics(store, up,
                       [companyId |-> companyId, campaignId |-> campaignId,
                        start |-> start, end |-> end]) :
        Respond(Request("getChannelAnalytics", companyId, campaignId, start,
                        end),
                up, outcome,
                IF outcome.threw
                THEN Failure(500, "Failed to retrieve channel analytics.")
                ELSE Ok(outcome.value))

GetRecommendations(campaignId, up) ==
    \E outcome \in getRecommendations(store, up, campaignId) :
        Respond(Request("getRecommendations", NoId, campaignId, NoDate,
                        NoDate),
                up, outcome,
                IF outcome.threw
                THEN Failure(500,
                         "Failed to retrieve analytics recommendations.")
                ELSE Ok(outcome.value))

----------------------------------------------------------------------------
(* app.js, routes/index.js and analytics.routes.js                         *)

\* A path in segments: "/analytics/overview" is <<"analytics", "overview">>.
\* The routes of the analytics router, in the order they are declared.
AnalyticsRoutes ==
    <<[path |-> <<"analytics", "overview">>, handler |-> "getOverview"],
      [path |-> <<"analytics", "campaign", ":campaignId">>,
       handler |-> "getCampaignAnalytics"],
      [path |-> <<"analytics", "channels">>,
       handler |-> "getChannelAnalytics"],
      [path |-> <<"analytics", "recommendations">>,
       handler |-> "getRecommendations"]>>

\* The prefixes under which the app and the index router mount a router.
AppMount == <<>>
AnalyticsMount == <<"analytics">>

\* A route parameter such as ":campaignId" matches any one segment.
IsParam(segment) == SubSeq(segment, 1, 1) = ":"

\* router.get(pattern, handler): the whole path matches, segment by segment.
RouteMatches(pattern, path) ==
    /\ Len(pattern) = Len(path)
    /\ \A i \in 1..Len(path) : IsParam(pattern[i]) \/ pattern[i] = path[i]

\* router.use(prefix, router): the path starts with the prefix, which is
\* cut off before the mounted router sees the path.
MountMatches(prefix, path) ==
    /\ Len(path) >= Len(prefix)
    /\ SubSeq(path, 1, Len(prefix)) = prefix
Strip(prefix, path) == SubSeq(path, Len(prefix) + 1, Len(path))

\* No route matched: Express answers 404 itself.
NoHandler == "none"
NotFoundPage == [status |-> 404, body |-> "Cannot GET"]

\* The first route of a router that matches the path, with the value of
\* its parameter.
RouterDispatch(routes, path) ==
    IF \E i \in DOMAIN routes : RouteMatches(routes[i].path, path)
    THEN LET i == CHOOSE k \in DOMAIN routes :
                      /\ RouteMatches(routes[k].path, path)
                      /\ \A j \in 1..(k - 1) :
                             ~RouteMatches(routes[j].path, path)
         IN  [handler |-> routes[i].handler,
              param |-> IF IsParam(routes[i].path[Len(path)])
                        THEN path[Len(path)] ELSE NoId]
    ELSE [handler |-> NoHandler, param |-> NoId]

\* The index router: of its mounts only /analytics can take a path that
\* starts with "analytics".
IndexDispatch(path) ==
    IF MountMatches(AnalyticsMount, path)
    THEN RouterDispatch(AnalyticsRoutes, Strip(AnalyticsMount, path))
    ELSE [handler |-> NoHandler, param |-> NoId]

\* app.use("/", routes)
AppDispatch(path) ==
    IF MountMatches(AppMount, path)
    THEN IndexDispatch(Strip(AppMount, path))
    ELSE [handler |-> NoHandler, param |-> NoId]

\* A GET request arrives and is handed to the app.
Receive(path) ==
    /\ url' = path
    /\ req' = Request("route", NoId, NoId, NoDate, NoDate)
    /\ res' = NoResponse
    /\ dbUp' = TRUE
    /\ dbCalls' = 0
    /\ matched' = EmptyBag
    /\ averageCPC' = NoCPC
    /\ UNCHANGED <<store, companies, contents, integrations, clock, run,
                   users, pending, job>>

Routing(handler) ==
    /\ req.handler = "route"
    /\ AppDispatch(url).handler = handler

RouteOverview ==
    /\ Routing("getOverview")
    /\ \E up \in BOOLEAN : GetOverview(NoId, NoDate, NoDate, up)

RouteCampaign ==
    /\ Routing("getCampaignAnalytics")
    /\ \E up \in BOOLEAN :
           GetCampaignAnalytics(AppDispatch(url).param, NoDate, NoDate, up)

RouteChannels ==
    /\ Routing("getChannelAnalytics")
    /\ \E up \in BOOLEAN : GetChannelAnalytics(NoId, NoId, NoDate, NoDate, up)

RouteRecommendations ==
    /\ Routing("getRecommendations")
    /\ \E up \in BOOLEAN : GetRecommendations(NoId, up)

RouteNone ==
    /\ Routing(NoHandler)
    /\ req' = Request(NoHandler, NoId, NoId, NoDate, NoDate)
    /\ res' = NotFoundPage
    /\ UNCHANGED <<store, dbUp, dbCalls, matched, averageCPC>>
    /\ UNCHANGED others

----------------------------------------------------------------------------

(* agents/analyticsAgent.js                                                *)

\* What analytics.service.js exports.
AnalyticsServiceExports ==
    {"getOverview", "getCampaignAnalytics", "getChannelAnalytics",
     "getRecommendations"}

\* The campaigns handed to the agent: an id and the channels it runs on.
Campaigns == [_id : CampaignIds, channels : SUBSET Channels]

\* fetchGoogleAdsMetrics / fetchMetaAdsMetrics: the platform's numbers.
PlatformMetrics ==
    [impressions |-> 20, clicks |-> 3, conversions |-> 1, cost |-> 5]

\* The channels of the campaign in the order the agent visits them.
Visited(campaign) ==
    (IF "GoogleAds" \in campaign.channels THEN <<"GoogleAds">> ELSE <<>>)
    \o (IF "Facebook" \in campaign.channels THEN <<"Facebook">> ELSE <<>>)

\* aggregatedMetrics once every listed channel has been fetched.
AggregatedMetrics(campaign) ==
    LET n == Len(Visited(campaign))
    IN  [campaignId |-> campaign._id, date |-> clock,
         impressions |-> n * PlatformMetrics.impressions,
         clicks |-> n * PlatformMetrics.clicks,
         conversions |-> n * PlatformMetrics.conversions,
         cost |-> n * PlatformMetrics.cost,
         channelData |-> [i \in 1..n |->
                             [channel |-> Visited(campaign)[i]]
                                 @@ PlatformMetrics]]

\* collectCampaignMetrics(campaign); fetched[channel] tells whether the
\* platform call for the channel resolves.  A rejected fetch is logged and
\* rethrown; otherwise the agent calls analyticsService.saveCampaignMetrics,
\* and calling a property the module does not export is a TypeError, which is
\* logged and rethrown too.  No other statement of the agent reaches the
\* store.
CollectCampaignMetrics(campaign, fetched) ==
    LET fetchesOk == \A channel \in campaign.channels : fetched[channel]
        saved == fetchesOk /\ "saveCampaignMetrics" \in AnalyticsServiceExports
    IN  /\ UNCHANGED <<store, req, res, dbUp, dbCalls, matched, averageCPC,
                       url, companies, contents, integrations, clock, users,
                       pending, job>>
        /\ run' = [state |-> IF saved THEN "resolved" ELSE "rejected",
                   campaign |-> campaign,
                   fetchesOk |-> fetchesOk,
                   error |-> IF ~fetchesOk THEN "platform error"
                             ELSE IF ~saved
                             THEN "TypeError: analyticsService.saveCampaignMetrics is not a function"
                             ELSE "",
                   passed |-> IF fetchesOk THEN AggregatedMetrics(campaign)
                              ELSE <<>>,
                   before |-> store,
                   after |-> store']

----------------------------------------------------------------------------

(* The entity services and controllers: what they share                    *)

\* The request an entity handler serves: route parameters and JSON body.
EntityRequest(handler, params, body) ==
    [handler |-> handler, params |-> params, body |-> body]

\* What a service call leaves behind: whether it threw (and the error's
\* code), the value it returned, the store calls it made and the collection
\* after it.
ServiceResult(threw, code, value, calls, docs) ==
    [threw |-> threw, code |-> code, value |-> value, calls |-> calls,
     docs |-> docs]
Thrown(calls, docs) == ServiceResult(TRUE, 0, Null, calls, docs)
Returned(value, docs) == ServiceResult(FALSE, 0, value, 1, docs)

\* A query filter { field: value, ... }: the document has each field of the
\* filter with the filter's value.
Satisfies(doc, filter) ==
    \A field \in DOMAIN filter : doc[field] = filter[field]

\* Model.findOne(filter), Model.findById(id): the document, or null.
FindOne(docs, filter) ==
    IF \E doc \in docs : Satisfies(doc, filter)
    THEN CHOOSE doc \in docs : Satisfies(doc, filter)
    ELSE Null

\* $set: the fields of `updates` written over the document's.
SetFields(doc, updates) ==
    [field \in DOMAIN doc |->
        IF field \in DOMAIN updates THEN updates[field] ELSE doc[field]]

\* findOneAndUpdate run as a save would be: updatedAt is moved on as well.
FindOneAndUpdateTouching(docs, filter, updates) ==
    LET doc == FindOne(docs, filter)
        touched == [updatedAt |-> doc.updatedAt + 1] @@ updates
    IN  IF doc = Null THEN Returned(Null, docs)
        ELSE Returned(SetFields(doc, touched),
                      (docs \ {doc}) \cup {SetFields(doc, touched)})

\* findOneAndUpdate(filter, { $set: updates }, { new: true }): the updated
\* document, or null with nothing changed.
FindOneAndUpdate(docs, filter, updates) ==
    LET doc == FindOne(docs, filter)
    IN  IF doc = Null THEN Returned(Null, docs)
        ELSE Returned(SetFields(doc, updates),
                      (docs \ {doc}) \cup {SetFields(doc, updates)})

\* findOneAndDelete(filter), then `!!result`.
FindOneAndDelete(docs, filter) ==
    LET doc == FindOne(docs, filter)
    IN  IF doc = Null THEN Returned(FALSE, docs)
        ELSE Returned(TRUE, docs \ {doc})

\* `!value` of a document a service returned: only null is falsy.
Missing(value) == value = Null

Created(data, message) ==
    [status |-> 201,
     body |-> [success |-> TRUE, data |-> data, message |-> message]]
OkWith(data, message) ==
    [status |-> 200,
     body |-> [success |-> TRUE, data |-> data, message |-> message]]
OkMessage(message) ==
    [status |-> 200, body |-> [success |-> TRUE, message |-> message]]

\* An entity handler's response, with what the service call left behind.
Reply(request, up, result, response) ==
    /\ req' = request
    /\ res' = response
    /\ dbUp' = up
    /\ dbCalls' = result.calls
    /\ matched' = EmptyBag
    /\ averageCPC' = NoCPC
    /\ UNCHANGED <<store, url, clock, run, pending, job>>

----------------------------------------------------------------------------

(* company.model.js, company.service.js and company.controller.js          *)

Names == {"Acme", "Bolt"}
Industries == {"retail"}

\* new Company({ ...companyData }): the fields given, createdAt defaulting
\* to Date.now and updatedAt not yet set.
NewCompany(id, companyData, now) ==
    [_id |-> id,
     name |-> companyData.name,
     industry |-> IF "industry" \in DOMAIN companyData
                  THEN companyData.industry ELSE NoId,
     createdAt |-> IF "createdAt" \in DOMAIN companyData
                   THEN companyData.createdAt ELSE now,
     updatedAt |-> NoDate]

\* schema.pre("save"): this.updatedAt = new Date().
PreSave(doc, now) == [doc EXCEPT !.updatedAt = now]

\* The service was not called.
NotCalled(docs) == ServiceResult(FALSE, 0, Null, 0, docs)

\* The error code of a unique-index violation.
DuplicateKey == 11000

createCompany(docs, up, companyData, id, now) ==
    IF "name" \notin DOMAIN companyData THEN Thrown(0, docs)
    ELSE IF ~up THEN Thrown(1, docs)
    ELSE IF \E doc \in docs : doc.name = companyData.name
    THEN ServiceResult(TRUE, DuplicateKey, Null, 1, docs)
    ELSE LET savedCompany == PreSave(NewCompany(id, companyData, now), now)
         IN  Returned(savedCompany, docs \cup {savedCompany})

\* getCompanyById with its test of companyId left out: findById(undefined)
\* finds nothing.
getCompanyByIdUnguarded(docs, up, companyId) ==
    IF ~up THEN Thrown(1, docs)
    ELSE Returned(FindOne(docs, [_id |-> companyId]), docs)

getCompanyById(docs, up, companyId) ==
    IF companyId = NoId THEN Thrown(0, docs)
    ELSE IF ~up THEN Thrown(1, docs)
    ELSE Returned(FindOne(docs, [_id |-> companyId]), docs)

updateCompany(docs, up, companyId, updates) ==
    IF companyId = NoId THEN Thrown(0, docs)
    ELSE IF ~up THEN Thrown(1, docs)
    ELSE FindOneAndUpdate(docs, [_id |-> companyId], updates)

deleteCompany(docs, up, companyId) ==
    IF companyId = NoId THEN Thrown(0, docs)
    ELSE IF ~up THEN Thrown(1, docs)
    ELSE FindOneAndDelete(docs, [_id |-> companyId])

\* A company handler's response and the collection its call left.
CompanyReply(request, up, result, response) ==
    /\ Reply(request, up, result, response)
    /\ companies' = result.docs
    /\ UNCHANGED <<contents, integrations, users>>

NoParams == <<>>

CreateCompany(companyData, id, up) ==
    LET request == EntityRequest("createCompany", NoParams, companyData)
        result == createCompany(companies, up, companyData, id, clock)
    IN  IF "name" \notin DOMAIN companyData
        THEN CompanyReply(request, up, NotCalled(companies),
                 Failure(400, "Missing required field: company name."))
        ELSE CompanyReply(request, up, result,
                 IF result.threw /\ result.code = DuplicateKey
                 THEN Failure(409, "A company with this name already exists.")
                 ELSE IF result.threw
                 THEN Failure(500, "Failed to create company.")
                 ELSE Created(result.value, "Company created successfully."))

GetCompanyById(companyId, up) ==
    LET result == getCompanyById(companies, up, companyId)
    IN  CompanyReply(EntityRequest("getCompanyById",
                                   [companyId |-> companyId], <<>>),
            up, result,
            IF result.threw THEN Failure(500, "Failed to retrieve company.")
            ELSE IF Missing(result.value)
            THEN Failure(404, "No company found with ID: " \o companyId)
            ELSE Ok(result.value))

UpdateCompany(companyId, updates, up) ==
    LET result == updateCompany(companies, up, companyId, updates)
    IN  CompanyReply(EntityRequest("updateCompany",
                                   [companyId |-> companyId], updates),
            up, result,
            IF result.threw THEN Failure(500, "Failed to update company.")
            ELSE IF Missing(result.value)
            THEN Failure(404, "No company found with ID: " \o companyId)
            ELSE OkWith(result.value, "Company updated successfully."))

DeleteCompany(companyId, up) ==
    LET result == deleteCompany(companies, up, companyId)
    IN  CompanyReply(EntityRequest("deleteCompany",
                                   [companyId |-> companyId], <<>>),
            up, result,
            IF result.threw THEN Failure(500, "Failed to delete company.")
            ELSE IF ~result.value
            THEN Failure(404, "No company found with ID: " \o companyId)
            ELSE OkMessage("Company deleted successfully."))

----------------------------------------------------------------------------

(* content.model.js, content.service.js and content.controller.js          *)

ContentIds == {"k1", "k2"}
Texts == {"a", "b"}

\* The Campaign collection: each campaign's companyId.  No content function
\* reads it.
CampaignCompany == ("c1" :> "co1") @@ ("c2" :> "co2")

\* new Content({ campaignId, ...contentData }): status defaults to "draft",
\* createdAt to Date.now; updatedAt is not yet set.
NewContent(id, campaignId, contentData, now) ==
    [_id |-> id,
     campaignId |-> campaignId,
     type |-> contentData.type,
     status |-> IF "status" \in DOMAIN contentData
                THEN contentData.status ELSE "draft",
     text |-> IF "text" \in DOMAIN contentData THEN contentData.text ELSE "",
     createdAt |-> now,
     updatedAt |-> NoDate]

\* The filter every content function but the first two queries with:
\* { _id: contentId, campaignId }; companyId is no part of it.
InCampaignById(companyId, campaignId, contentId) ==
    [_id |-> contentId, campaignId |-> campaignId]

\* The test the content functions open with.
IdsMissing(companyId, campaignId, contentId) ==
    companyId = NoId \/ campaignId = NoId \/ contentId = NoId

createContent(docs, up, companyId, campaignId, contentData, id, now) ==
    IF companyId = NoId \/ campaignId = NoId THEN Thrown(0, docs)
    ELSE IF "type" \notin DOMAIN contentData THEN Thrown(0, docs)
    ELSE IF ~up THEN Thrown(1, docs)
    ELSE LET savedContent ==
                 PreSave(NewContent(id, campaignId, contentData, now), now)
         IN  Returned(savedContent, docs \cup {savedContent})

\* No status, type, page or limit in the query: the campaign's items, at
\* most 20, the order left out.
getContentList(docs, up, companyId, campaignId) ==
    IF companyId = NoId \/ campaignId = NoId THEN Thrown(0, docs)
    ELSE IF ~up THEN Thrown(1, docs)
    ELSE Returned({doc \in docs : doc.campaignId = campaignId}, docs)

getContentById(docs, up, companyId, campaignId, contentId) ==
    IF IdsMissing(companyId, campaignId, contentId) THEN Thrown(0, docs)
    ELSE IF ~up THEN Thrown(1, docs)
    ELSE Returned(FindOne(docs, InCampaignById(companyId, campaignId,
                                                contentId)), docs)

updateContent(docs, up, companyId, campaignId, contentId, updates) ==
    IF IdsMissing(companyId, campaignId, contentId) THEN Thrown(0, docs)
    ELSE IF ~up THEN Thrown(1, docs)
    ELSE FindOneAndUpdate(docs,
             InCampaignById(companyId, campaignId, contentId),
             updates)

deleteContent(docs, up, companyId, campaignId, contentId) ==
    IF IdsMissing(companyId, campaignId, contentId) THEN Thrown(0, docs)
    ELSE IF ~up THEN Thrown(1, docs)
    ELSE FindOneAndDelete(docs,
             InCampaignById(companyId, campaignId, contentId))

\* approveContent with a transition guard: only a draft or an item pending
\* approval is approved.
approveContentGuarded(docs, up, companyId, campaignId, contentId) ==
    IF IdsMissing(companyId, campaignId, contentId) THEN Thrown(0, docs)
    ELSE IF ~up THEN Thrown(1, docs)
    ELSE LET filter == InCampaignById(companyId, campaignId, contentId)
             doc == FindOne(docs, filter)
         IN  IF doc = Null \/ doc.status \notin {"draft", "pending_approval"}
             THEN Returned(Null, docs)
             ELSE FindOneAndUpdate(docs, filter, [status |-> "approved"])

approveContent(docs, up, companyId, campaignId, contentId) ==
    IF IdsMissing(companyId, campaignId, contentId) THEN Thrown(0, docs)
    ELSE IF ~up THEN Thrown(1, docs)
    ELSE FindOneAndUpdate(docs,
             InCampaignById(companyId, campaignId, contentId),
             [status |-> "approved"])

rejectContent(docs, up, companyId, campaignId, contentId) ==
    IF IdsMissing(companyId, campaignId, contentId) THEN Thrown(0, docs)
    ELSE IF ~up THEN Thrown(1, docs)
    ELSE FindOneAndUpdate(docs,
             InCampaignById(companyId, campaignId, contentId),
             [status |-> "rejected"])

\* A content handler's response and the collection its call left.
ContentReply(request, up, result, response) ==
    /\ Reply(request, up, result, response)
    /\ contents' = result.docs
    /\ UNCHANGED <<companies, integrations, users>>

ContentParams(companyId, campaignId, contentId) ==
    [companyId |-> companyId, campaignId |-> campaignId,
     contentId |-> contentId]

\* What each content handler answers when the service finds no item.
NoContentFound(contentId) ==
    Failure(404, "No content found with ID: " \o contentId)

CreateContent(companyId, campaignId, contentData, id, up) ==
    LET request == EntityRequest("createContent",
                       ContentParams(companyId, campaignId, NoId), contentData)
        result == createContent(contents, up, companyId, campaignId,
                                contentData, id, clock)
    IN  IF "type" \notin DOMAIN contentData
        THEN ContentReply(request, up, NotCalled(contents),
                 Failure(400, "Missing required field: 'type' (e.g., 'text', 'image', etc.)."))
        ELSE ContentReply(request, up, result,
                 IF result.threw THEN Failure(500, "Failed to create content.")
                 ELSE Created(result.value, "Content created successfully."))

GetContentList(companyId, campaignId, up) ==
    LET result == getContentList(contents, up, companyId, campaignId)
    IN  ContentReply(EntityRequest("getContentList",
                         ContentParams(companyId, campaignId, NoId), <<>>),
            up, result,
            IF result.threw
            THEN Failure(500, "Failed to retrieve content list.")
            ELSE Ok(result.value))

GetContentById(companyId, campaignId, contentId, up) ==
    LET result == getContentById(contents, up, companyId, campaignId,
                                 contentId)
    IN  ContentReply(EntityRequest("getContentById",
                         ContentParams(companyId, campaignId, contentId), <<>>),
            up, result,
            IF result.threw THEN Failure(500, "Failed to retrieve content.")
            ELSE IF Missing(result.value) THEN NoContentFound(contentId)
            ELSE Ok(result.value))

UpdateContent(companyId, campaignId, contentId, updates, up) ==
    LET result == updateContent(contents, up, companyId, campaignId,
                                contentId, updates)
    IN  ContentReply(EntityRequest("updateContent",
                         ContentParams(companyId, campaignId, contentId),
                         updates),
            up, result,
            IF result.threw THEN Failure(500, "Failed to update content.")
            ELSE IF Missing(result.value) THEN NoContentFound(contentId)
            ELSE OkWith(result.value, "Content updated successfully."))

DeleteContent(companyId, campaignId, contentId, up) ==
    LET result == deleteContent(contents, up, companyId, campaignId,
                                contentId)
    IN  ContentReply(EntityRequest("deleteContent",
                         ContentParams(companyId, campaignId, contentId), <<>>),
            up, result,
            IF result.threw THEN Failure(500, "Failed to delete content.")
            ELSE IF ~result.value THEN NoContentFound(contentId)
            ELSE OkMessage("Content deleted successfully."))

ApproveContent(companyId, campaignId, contentId, up) ==
    LET result == approveContent(contents, up, companyId, campaignId,
                                 contentId)
    IN  ContentReply(EntityRequest("approveContent",
                         ContentParams(companyId, campaignId, contentId), <<>>),
            up, result,
            IF result.threw THEN Failure(500, "Failed to approve content.")
            ELSE IF Missing(result.value) THEN NoContentFound(contentId)
            ELSE OkWith(result.value, "Content approved."))

RejectContent(companyId, campaignId, contentId, up) ==
    LET result == rejectContent(contents, up, companyId, campaignId,
                                contentId)
    IN  ContentReply(EntityRequest("rejectContent",
                         ContentParams(companyId, campaignId, contentId), <<>>),
            up, result,
            IF result.threw THEN Failure(500, "Failed to reject content.")
            ELSE IF Missing(result.value) THEN NoContentFound(contentId)
            ELSE OkWith(result.value, "Content rejected."))

----------------------------------------------------------------------------

(* integration.model.js, integration.service.js, integration.controller.js *)

IntegrationIds == {"i1", "i2"}
Codes == {"code1"}

\* new Integration({ companyId, ...integrationData }): status defaults to
\* "active", createdAt to Date.now; meta and refreshToken are left out.
NewIntegration(id, companyId, integrationData, now) ==
    [_id |-> id,
     companyId |-> companyId,
     platform |-> integrationData.platform,
     status |-> "active",
     accessToken |-> NoId,
     createdAt |-> IF "createdAt" \in DOMAIN integrationData
                   THEN integrationData.createdAt ELSE now,
     updatedAt |-> NoDate]

getIntegrations(docs, up, companyId) ==
    IF companyId = NoId THEN Thrown(0, docs)
    ELSE IF ~up THEN Thrown(1, docs)
    ELSE Returned({doc \in docs : doc.companyId = companyId}, docs)

createIntegration(docs, up, companyId, integrationData, id, now) ==
    IF companyId = NoId THEN Thrown(0, docs)
    ELSE IF "platform" \notin DOMAIN integrationData THEN Thrown(0, docs)
    ELSE IF ~up THEN Thrown(1, docs)
    ELSE LET savedIntegration ==
                 PreSave(NewIntegration(id, companyId, integrationData, now),
                         now)
         IN  Returned(savedIntegration, docs \cup {savedIntegration})

getIntegrationById(docs, up, integrationId) ==
    IF integrationId = NoId THEN Thrown(0, docs)
    ELSE IF ~up THEN Thrown(1, docs)
    ELSE Returned(FindOne(docs, [_id |-> integrationId]), docs)

updateIntegration(docs, up, integrationId, updates) ==
    IF integrationId = NoId THEN Thrown(0, docs)
    ELSE IF ~up THEN Thrown(1, docs)
    ELSE FindOneAndUpdate(docs, [_id |-> integrationId], updates)

deleteIntegration(docs, up, integrationId) ==
    IF integrationId = NoId THEN Thrown(0, docs)
    ELSE IF ~up THEN Thrown(1, docs)
    ELSE FindOneAndDelete(docs, [_id |-> integrationId])

\* findById, then the mock tokens are set and the document is saved.
handleOAuthCallback(docs, up, integrationId, code, now) ==
    IF integrationId = NoId \/ code = NoId THEN Thrown(0, docs)
    ELSE IF ~up THEN Thrown(1, docs)
    ELSE LET integration == FindOne(docs, [_id |-> integrationId])
             saved == PreSave([integration EXCEPT
                                   !.accessToken = "mock_access_token",
                                   !.status = "active"], now)
         IN  IF integration = Null THEN Returned(Null, docs)
             ELSE ServiceResult(FALSE, 0, saved, 2,
                                (docs \ {integration}) \cup {saved})

\* An integration handler's response and the collection its call left.
IntegrationReply(request, up, result, response) ==
    /\ Reply(request, up, result, response)
    /\ integrations' = result.docs
    /\ UNCHANGED <<companies, contents, users>>

GetIntegrations(companyId, up) ==
    LET result == getIntegrations(integrations, up, companyId)
    IN  IntegrationReply(EntityRequest("getIntegrations",
                                       [companyId |-> companyId], <<>>),
            up, result,
            IF result.threw
            THEN Failure(500, "Failed to retrieve integrations.")
            ELSE Ok(result.value))

CreateIntegration(companyId, integrationData, id, up) ==
    LET request == EntityRequest("createIntegration",
                                 [companyId |-> companyId], integrationData)
        result == createIntegration(integrations, up, companyId,
                                    integrationData, id, clock)
    IN  IF "platform" \notin DOMAIN integrationData
        THEN IntegrationReply(request, up, NotCalled(integrations),
                 Failure(400, "Missing required field: 'platform'."))
        ELSE IntegrationReply(request, up, result,
                 IF result.threw /\ result.code = DuplicateKey
                 THEN Failure(409,
                          "An integration for this platform already exists.")
                 ELSE IF result.threw
                 THEN Failure(500, "Failed to create integration.")
                 ELSE Created(result.value,
                              "Integration created successfully."))

GetIntegrationById(integrationId, up) ==
    LET result == getIntegrationById(integrations, up, integrationId)
    IN  IntegrationReply(EntityRequest("getIntegrationById",
                             [integrationId |-> integrationId], <<>>),
            up, result,
            IF result.threw
            THEN Failure(500, "Failed to retrieve integration.")
            ELSE IF Missing(result.value)
            THEN Failure(404, "No integration found with ID: "
                                  \o integrationId)
            ELSE Ok(result.value))

UpdateIntegration(integrationId, updates, up) ==
    LET result == updateIntegration(integrations, up, integrationId, updates)
    IN  IntegrationReply(EntityRequest("updateIntegration",
                             [integrationId |-> integrationId], updates),
            up, result,
            IF result.threw THEN Failure(500, "Failed to update integration.")
            ELSE IF Missing(result.value)
            THEN Failure(404, "No integration found with ID: "
                                  \o integrationId)
            ELSE OkWith(result.value, "Integration updated successfully."))

DeleteIntegration(integrationId, up) ==
    LET result == deleteIntegration(integrations, up, integrationId)
    IN  IntegrationReply(EntityRequest("deleteIntegration",
                             [integrationId |-> integrationId], <<>>),
            up, result,
            IF result.threw THEN Failure(500, "Failed to delete integration.")
            ELSE IF ~result.value
            THEN Failure(404, "No integration found with ID: "
                                  \o integrationId)
            ELSE OkMessage("Integration deleted successfully."))

HandleOAuthRedirect(integrationId, code, up) ==
    LET result == handleOAuthCallback(integrations, up, integrationId, code,
                                      clock)
    IN  IntegrationReply(EntityRequest("handleOAuthRedirect",
                             [integrationId |-> integrationId],
                             [code |-> code]),
            up, result,
            IF result.threw
            THEN Failure(500, "Failed to handle OAuth redirect.")
            ELSE IF Missing(result.value)
            THEN Failure(400, "Failed to handle OAuth callback. "
                              \o "Integration not found or code invalid.")
            ELSE OkWith(result.value, "OAuth flow completed successfully."))

----------------------------------------------------------------------------

(* user.model.js, auth.service.js and auth.controller.js                   *)

Connections == {"x1", "x2"}
Emails == {"a@x.io", "A@x.io", "b@x.io"}
Passwords == {"pw1", "pw2"}
UserIds == {"u1", "u2"}
FirstNames == {"Ann"}
LastNames == {"Lee"}

\* A connection on which no register call is in flight.
Idle == [pc |-> "idle"]

\* The email path's `lowercase: true`.
Lowercase(email) == IF email = "A@x.io" THEN "a@x.io" ELSE email

\* bcrypt.hash(password, saltRounds) and bcrypt.compare(password, hash):
\* a hash matches the password it was made from and no other.
Hash(password) == "$2b$10$" \o password
\* A comparison that accepts every password.
CompareAny(password, passwordHash) == TRUE

Compare(password, passwordHash) == passwordHash = Hash(password)

\* new User({ email, passwordHash, role: "marketer", profile }).
NewUser(id, email, passwordHash, firstName, lastName, now) ==
    [_id |-> id,
     email |-> Lowercase(email),
     passwordHash |-> passwordHash,
     role |-> "marketer",
     profile |-> [firstName |-> firstName, lastName |-> lastName],
     createdAt |-> now,
     updatedAt |-> NoDate]

\* The object registerUser and loginUser build from the document.
UserData(user) ==
    [_id |-> user._id, email |-> user.email, role |-> user.role,
     profile |-> user.profile]

\* const { passwordHash, ...userData } = user.
WithoutPasswordHash(user) ==
    [field \in DOMAIN user \ {"passwordHash"} |-> user[field]]

\* The unique index on email left out: every insert is accepted.
UniqueEmailUnchecked(docs, doc) == TRUE

\* `unique: true` on the email path: the index accepts the insert only if
\* no stored document has the email.
UniqueEmail(docs, doc) == \A other \in docs : other.email # doc.email

\* A register call suspended on an await, and one that has answered.
InFlight(pc, body) == [pc |-> pc, body |-> body]
Done(body, status) == [pc |-> "done", body |-> body, status |-> status]

\* register sends its response on the connection.
RegisterReply(connection, body, up, calls, response, docs) ==
    /\ pending' = [pending EXCEPT ![connection] = Done(body, response.status)]
    /\ req' = EntityRequest("register", NoParams, body)
    /\ res' = response
    /\ dbUp' = up
    /\ dbCalls' = calls
    /\ matched' = EmptyBag
    /\ averageCPC' = NoCPC
    /\ users' = docs
    /\ UNCHANGED <<store, url, companies, contents, integrations, clock, run,
                   job>>

\* register is suspended on its next await.
RegisterAwait(connection, pc, body) ==
    /\ pending' = [pending EXCEPT ![connection] = InFlight(pc, body)]
    /\ UNCHANGED <<store, req, res, dbUp, dbCalls, matched, averageCPC, url,
                   companies, contents, integrations, clock, run, users, job>>

\* POST /auth/register arrives: the body is validated and registerUser
\* issues User.findOne({ email }).
Register(connection, body) ==
    /\ pending[connection].pc \in {"idle", "done"}
    /\ IF body.email = NoId \/ body.password = NoId
       THEN RegisterReply(connection, body, TRUE, 0,
                Failure(400, "Missing required fields: email or password."),
                users)
       ELSE RegisterAwait(connection, "findOne", body)

\* User.findOne({ email }) resolves; `cast` is whether the query runs the
\* path's setters on the filter.  An existing user is error.code 11000.
RegisterFindOne(connection, up, cast) ==
    /\ pending[connection].pc = "findOne"
    /\ LET body == pending[connection].body
           email == IF cast THEN Lowercase(body.email) ELSE body.email
           existingUser == FindOne(users, [email |-> email])
       IN  IF ~up
           THEN RegisterReply(connection, body, up, 1,
                    Failure(500, "Failed to register user."), users)
           ELSE IF existingUser # Null
           THEN RegisterReply(connection, body, up, 1,
                    Failure(409, "User with this email already exists."),
                    users)
           ELSE RegisterAwait(connection, "save", body)

\* bcrypt.hash has resolved and newUser.save() resolves or rejects; the
\* index's rejection carries code 11000 too.
RegisterSave(connection, up, id) ==
    /\ pending[connection].pc = "save"
    /\ LET body == pending[connection].body
           newUser == NewUser(id, body.email, Hash(body.password),
                              body.firstName, body.lastName, clock)
           savedUser == PreSave(newUser, clock)
       IN  IF ~up
           THEN RegisterReply(connection, body, up, 2,
                    Failure(500, "Failed to register user."), users)
           ELSE IF ~UniqueEmail(users, newUser)
           THEN RegisterReply(connection, body, up, 2,
                    Failure(409, "User with this email already exists."),
                    users)
           ELSE RegisterReply(connection, body, up, 2,
                    Created(UserData(savedUser),
                            "User registered successfully."),
                    users \cup {savedUser})

\* A user handler's response and the collection its call left.
UserReply(request, up, result, response) ==
    /\ Reply(request, up, result, response)
    /\ users' = result.docs
    /\ UNCHANGED <<companies, contents, integrations>>

\* jwt.sign(payload, secret, { expiresIn }): the claims the token carries.
Token(user) == [userId |-> user._id, role |-> user.role]
NoLogin == [token |-> Null, user |-> Null]

loginUser(docs, up, email, password, cast) ==
    LET user == FindOne(docs, [email |-> IF cast THEN Lowercase(email)
                                         ELSE email])
    IN  IF ~up THEN Thrown(1, docs)
        ELSE IF user = Null THEN Returned(NoLogin, docs)
        ELSE IF ~Compare(password, user.passwordHash)
        THEN Returned(NoLogin, docs)
        ELSE Returned([token |-> Token(user), user |-> UserData(user)], docs)

getUserProfile(docs, up, userId) ==
    LET user == FindOne(docs, [_id |-> userId])
    IN  IF ~up THEN Thrown(1, docs)
        ELSE IF user = Null THEN Returned(Null, docs)
        ELSE Returned(WithoutPasswordHash(user), docs)

\* POST /auth/login.
Login(body, up, cast) ==
    LET request == EntityRequest("login", NoParams, body)
        result == loginUser(users, up, body.email, body.password, cast)
    IN  IF body.email = NoId \/ body.password = NoId
        THEN UserReply(request, up, NotCalled(users),
                 Failure(400, "Missing required fields: email or password."))
        ELSE UserReply(request, up, result,
                 IF result.threw THEN Failure(500, "Failed to login.")
                 ELSE IF result.value.token = Null
                 THEN Failure(401, "Invalid credentials.")
                 ELSE OkWith(result.value, "Login successful."))

\* GET /auth/me, with the userId the authentication middleware set.
GetProfile(userId, up) ==
    LET request == EntityRequest("getProfile", [userId |-> userId], <<>>)
        result == getUserProfile(users, up, userId)
    IN  IF userId = NoId
        THEN UserReply(request, up, NotCalled(users),
                 Failure(401, "Unauthorized. No valid user token found."))
        ELSE UserReply(request, up, result,
                 IF result.threw
                 THEN Failure(500, "Failed to retrieve user profile.")
                 ELSE IF Missing(result.value)
                 THEN Failure(404, "User not found.")
                 ELSE Ok(result.value))

----------------------------------------------------------------------------

(* user.service.js and user.controller.js                                  *)

getUserById(docs, up, userId) ==
    IF userId = NoId THEN Thrown(0, docs)
    ELSE IF ~up THEN Thrown(1, docs)
    ELSE Returned(FindOne(docs, [_id |-> userId]), docs)

updateUser(docs, up, userId, updates) ==
    IF userId = NoId THEN Thrown(0, docs)
    ELSE IF ~up THEN Thrown(1, docs)
    ELSE FindOneAndUpdate(docs, [_id |-> userId], updates)

\* deleteUser with the result of findByIdAndDelete ignored: always true.
deleteUserAlwaysTrue(docs, up, userId) ==
    IF userId = NoId THEN Thrown(0, docs)
    ELSE IF ~up THEN Thrown(1, docs)
    ELSE Returned(TRUE, FindOneAndDelete(docs, [_id |-> userId]).docs)

deleteUser(docs, up, userId) ==
    IF userId = NoId THEN Thrown(0, docs)
    ELSE IF ~up THEN Thrown(1, docs)
    ELSE FindOneAndDelete(docs, [_id |-> userId])

GetUserById(userId, up) ==
    LET result == getUserById(users, up, userId)
    IN  UserReply(EntityRequest("getUserById", [userId |-> userId], <<>>),
            up, result,
            IF result.threw THEN Failure(500, "Failed to retrieve user.")
            ELSE IF Missing(result.value)
            THEN Failure(404, "No user found with ID: " \o userId)
            ELSE Ok(result.value))

UpdateUser(userId, updates, up) ==
    LET result == updateUser(users, up, userId, updates)
    IN  UserReply(EntityRequest("updateUser", [userId |-> userId], updates),
            up, result,
            IF result.threw THEN Failure(500, "Failed to update user.")
            ELSE IF Missing(result.value)
            THEN Failure(404, "No user found with ID: " \o userId)
            ELSE OkWith(result.value, "User updated successfully."))

DeleteUser(userId, up) ==
    LET result == deleteUser(users, up, userId)
    IN  UserReply(EntityRequest("deleteUser", [userId |-> userId], <<>>),
            up, result,
            IF result.threw THEN Failure(500, "Failed to delete user.")
            ELSE IF ~result.value
            THEN Failure(404, "No user found with ID: " \o userId)
            ELSE OkMessage("User deleted successfully."))

----------------------------------------------------------------------------

(* strategyAgent.js                                                        *)

\* No strategy or content agent call has been made.
NoJob == [agent |-> "none", state |-> "none"]

\* What an agent call leaves unchanged: everything but `job`.
AgentFrame ==
    UNCHANGED <<store, req, res, dbUp, dbCalls, matched, averageCPC, url,
                companies, contents, integrations, clock, run, users, pending>>

\* The lines a completion's text is made of.
Lines == {"Task: Post weekly", "- Run ads", " task: Mail ", "Remarks follow"}

\* String.prototype.startsWith, toLowerCase (over the letters of "TASK")
\* and trim.
StartsWith(text, prefix) ==
    /\ Len(text) >= Len(prefix)
    /\ SubSeq(text, 1, Len(prefix)) = prefix

LowerChar(char) ==
    CASE char = "T" -> "t" [] char = "A" -> "a" [] char = "S" -> "s"
      [] char = "K" -> "k" [] OTHER -> char

RECURSIVE ToLowerCase(_)
ToLowerCase(text) ==
    IF text = "" THEN ""
    ELSE LowerChar(SubSeq(text, 1, 1))
             \o ToLowerCase(SubSeq(text, 2, Len(text)))

RECURSIVE Trim(_)
Trim(text) ==
    IF text = "" THEN ""
    ELSE IF SubSeq(text, 1, 1) = " " THEN Trim(SubSeq(text, 2, Len(text)))
    ELSE IF SubSeq(text, Len(text), Len(text)) = " "
    THEN Trim(SubSeq(text, 1, Len(text) - 1))
    ELSE text

\* The test parsePlanFromText applies to a trimmed line.
IsTaskLine(trimmed) ==
    StartsWith(ToLowerCase(trimmed), "task:") \/ StartsWith(trimmed, "- ")

\* trimmed.replace(/task:|-/i, "").trim() of a task line: the match is the
\* "task:" or the "-" the line starts with.
TaskName(trimmed) ==
    IF StartsWith(ToLowerCase(trimmed), "task:")
    THEN Trim(SubSeq(trimmed, 6, Len(trimmed)))
    ELSE Trim(SubSeq(trimmed, 2, Len(trimmed)))

TrimAll(lines) == [i \in 1..Len(lines) |-> Trim(lines[i])]

\* parsePlanFromText: one task per line that is a task line.
parsePlanFromText(text) ==
    LET taskLines == SelectSeq(TrimAll(text), IsTaskLine)
    IN  [strategySummary |-> text,
         tasks |-> [i \in 1..Len(taskLines) |->
                       [name |-> TaskName(taskLines[i]),
                        channel |-> "Unknown",
                        suggestedBudget |-> "TBD",
                        description |-> taskLines[i]]]]

\* `$${x}` of a number, and of `dailyCap || "N/A"`.
Dollars(amount) == "$" \o ToString(amount)
DailyCap(budget) ==
    IF "dailyCap" \in DOMAIN budget THEN Dollars(budget.dailyCap) ELSE "$N/A"

\* fallbackLocalPlan with its second sample task left out.
fallbackLocalPlanShort(inputs) ==
    [strategySummary |-> "Local fallback strategy for brand awareness with multi-channel approach.",
     tasks |-> <<[name |-> "Create 3 Social Posts per week",
                  channel |-> "Facebook & Instagram",
                  suggestedBudget |-> DailyCap(inputs.budget)
                                          \o " daily for ads",
                  description |-> "Short, engaging copy focusing on brand story and visuals."]>>]

\* budget.total * 0.4 is computed for totals that are multiples of five.
fallbackLocalPlan(inputs) ==
    [strategySummary |-> "Local fallback strategy for brand awareness with multi-channel approach.",
     tasks |-> <<[name |-> "Create 3 Social Posts per week",
                  channel |-> "Facebook & Instagram",
                  suggestedBudget |-> DailyCap(inputs.budget)
                                          \o " daily for ads",
                  description |-> "Short, engaging copy focusing on brand story and visuals."],
                 [name |-> "Launch Google Ads Campaign",
                  channel |-> "Google Ads",
                  suggestedBudget |->
                      Dollars((inputs.budget.total * 2) \div 5) \o " overall",
                  description |-> "Focus on relevant keywords, brand searches, and competitor terms."]>>]

\* What a call of an agent's function came to.
Rejected(agent, llmCalls) ==
    [agent |-> agent, state |-> "rejected", llmCalls |-> llmCalls]
Resolved(agent, llmCalls, value) ==
    [agent |-> agent, state |-> "resolved", llmCalls |-> llmCalls,
     value |-> value]

\* A completion the LLM client resolves with, or its failure.
Completion(text) == [ok |-> TRUE, text |-> text]
LlmFailure == [ok |-> FALSE]

\* generatePlan; `configured` is whether OPENAI_API_KEY gave a client,
\* `completion` what createCompletion comes to if it is called.
\* buildAiPrompt, called before the try block, only reads fields of the
\* inputs (budget is present, channels a list or absent) and returns.
generatePlan(campaignInputs, configured, completion) ==
    IF \/ campaignInputs = Null
       \/ campaignInputs.objective = NoId
       \/ campaignInputs.budget = Null
    THEN Rejected("strategy", 0)
    ELSE IF ~configured
    THEN Resolved("strategy", 0, fallbackLocalPlan(campaignInputs))
    ELSE IF completion.ok
    THEN Resolved("strategy", 1, parsePlanFromText(completion.text))
    ELSE Resolved("strategy", 1, fallbackLocalPlan(campaignInputs))

\* A call of generatePlan, kept with its arguments and with what the LLM
\* client came to if it was called.
NotCalledLlm == [ok |-> FALSE, called |-> FALSE]
GeneratePlan(campaignInputs, configured, completion) ==
    LET outcome == generatePlan(campaignInputs, configured, completion)
    IN  /\ job' = outcome @@
                      [inputs |-> campaignInputs,
                       configured |-> configured,
                       completion |-> IF outcome.llmCalls = 0
                                      THEN NotCalledLlm ELSE completion]
        /\ AgentFrame

----------------------------------------------------------------------------

(* contentAgent.js                                                         *)

PostTasks ==
    {[type |-> "socialPost", productName |-> productName,
      channel |-> channel] :
        productName \in {"Shoes", NoId}, channel \in {"Facebook", "Twitter"}}
ImageTasks ==
    {[type |-> "image", prompt |-> prompt, channel |-> channel] :
        prompt \in {"A shoe", NoId}, channel \in {"Facebook", "Twitter"}}
OtherTasks ==
    {[type |-> "blogPost", channel |-> channel] :
        channel \in {"Facebook", "Twitter"}}
Tasks == PostTasks \cup ImageTasks \cup OtherTasks

\* What a call of createSocialPost or createImage came to.
Generated(value) == [threw |-> FALSE, llmCalls |-> 1, value |-> value]
GenerationFailed(llmCalls) == [threw |-> TRUE, llmCalls |-> llmCalls]

\* createSocialPost: throws without a productName, else the trimmed text of
\* the completion, or the completion's error rethrown.
createSocialPost(options, completion) ==
    IF options.productName = NoId THEN GenerationFailed(0)
    ELSE IF ~completion.ok THEN GenerationFailed(1)
    ELSE Generated(Trim(completion.text))

\* createImage: throws without a prompt, else the url of the first image,
\* or the client's error rethrown.
createImage(prompt, completion) ==
    IF prompt = NoId THEN GenerationFailed(0)
    ELSE IF ~completion.ok THEN GenerationFailed(1)
    ELSE Generated(completion.text)

\* results.unshift(item): the item is put first.
Unshift(results, item) == <<item>> \o results

\* results.push(item).
Push(results, item) == Append(results, item)

\* generateContentForPlan suspended in its loop: the tasks, the index of the
\* task the loop is at, the results so far and the tasks createSocialPost
\* or createImage have been called for.
Running(tasks, next, results, calls, llmCalls) ==
    [agent |-> "content", state |-> "running", tasks |-> tasks,
     next |-> next, results |-> results, calls |-> calls,
     llmCalls |-> llmCalls]

\* generateContentForPlan(plan) is called: `plan.tasks || []`, or the
\* TypeError of reading tasks of no plan, logged and rethrown.
GenerateContentForPlan(plan) ==
    /\ job = NoJob
    /\ job' = IF plan = Null
              THEN [Running(<<>>, 1, <<>>, <<>>, 0)
                       EXCEPT !.state = "rejected"]
              ELSE Running(IF "tasks" \in DOMAIN plan THEN plan.tasks
                           ELSE <<>>,
                           1, <<>>, <<>>, 0)
    /\ AgentFrame

\* One iteration of the loop: the task's content is generated and awaited,
\* and pushed; a failure is logged and rethrown; a task of another type is
\* passed over.
ContentTask(completion) ==
    /\ job.agent = "content"
    /\ job.state = "running"
    /\ job.next <= Len(job.tasks)
    /\ LET task == job.tasks[job.next]
           outcome == IF task.type = "socialPost"
                      THEN createSocialPost(task, completion)
                      ELSE createImage(task.prompt, completion)
           item == IF task.type = "socialPost"
                   THEN [type |-> "text", content |-> outcome.value,
                         channel |-> task.channel]
                   ELSE [type |-> "image", url |-> outcome.value,
                         channel |-> task.channel]
       IN  job' = IF task.type \notin {"socialPost", "image"}
                  THEN [job EXCEPT !.next = @ + 1]
                  ELSE IF outcome.threw
                  THEN [job EXCEPT !.state = "rejected",
                                   !.calls = Append(@, job.next),
                                   !.llmCalls = @ + outcome.llmCalls]
                  ELSE [job EXCEPT !.next = @ + 1,
                                   !.results = Push(@, item),
                                   !.calls = Append(@, job.next),
                                   !.llmCalls = @ + outcome.llmCalls]
    /\ AgentFrame

\* The loop is over: `return results`.
ContentDone ==
    /\ job.agent = "content"
    /\ job.state = "running"
    /\ job.next > Len(job.tasks)
    /\ job' = [job EXCEPT !.state = "resolved"] @@ [value |-> job.results]
    /\ AgentFrame

----------------------------------------------------------------------------

(* Specifications                                                          *)

\* record.save() of a new document; `max` bounds the collection.
Save(doc, max) ==
    /\ BagCardinality(store) < max
    /\ store' = store (+) SetToBag({doc})
    /\ req' = Request("save", NoId, NoId, NoDate, NoDate)
    /\ res' = NoResponse
    /\ dbUp' = TRUE
    /\ dbCalls' = 1
    /\ matched' = EmptyBag
    /\ averageCPC' = NoCPC
    /\ UNCHANGED others

\* No collection run has been made.
NoRun == [state |-> "none"]

Init ==
    /\ store = EmptyBag
    /\ req = Request("save", NoId, NoId, NoDate, NoDate)
    /\ res = NoResponse
    /\ dbUp = TRUE
    /\ dbCalls = 0
    /\ matched = EmptyBag
    /\ averageCPC = NoCPC
    /\ url = <<>>
    /\ companies = {}
    /\ contents = {}
    /\ integrations = {}
    /\ clock = 1
    /\ run = NoRun
    /\ users = {}
    /\ pending = [connection \in Connections |-> Idle]
    /\ job = NoJob

QueryDates == Dates \cup {NoDate}

SaveOverviewDoc == \E doc \in OverviewDocs : Save(doc, MaxRecords)

OverviewRequest ==
    \E companyId \in CompanyIds \cup {NoId}, start \in QueryDates,
       end \in QueryDates, up \in BOOLEAN :
        GetOverview(companyId, start, end, up)

NextOverview ==
    \/ SaveOverviewDoc
    \/ OverviewRequest

SpecOverview == Init /\ [][NextOverview]_vars

SaveChannelDoc == \E doc \in ChannelDocs : Save(doc, MaxChannelRecords)

ChannelRequest ==
    \E companyId \in {"co1", NoId}, campaignId \in {"c1", NoId},
       start \in QueryDates, end \in QueryDates, up \in BOOLEAN :
        GetChannelAnalytics(companyId, campaignId, start, end, up)

NextChannels ==
    \/ SaveChannelDoc
    \/ ChannelRequest

SpecChannels == Init /\ [][NextChannels]_vars

SaveCampaignDoc == \E doc \in CampaignDocs : Save(doc, MaxCampaignRecords)

CampaignRequest ==
    \E campaignId \in {"c1", NoId}, start \in QueryDates,
       end \in QueryDates, up \in BOOLEAN :
        GetCampaignAnalytics(campaignId, start, end, up)

NextCampaign ==
    \/ SaveCampaignDoc
    \/ CampaignRequest

SpecCampaign == Init /\ [][NextCampaign]_vars

SaveFilterDoc == \E doc \in FilterDocs : Save(doc, MaxFilterRecords)

FilterOverviewRequest ==
    \E companyId \in {"co1", NoId}, start \in QueryDates,
       end \in QueryDates, up \in BOOLEAN :
        GetOverview(companyId, start, end, up)

NextFilters ==
    \/ SaveFilterDoc
    \/ FilterOverviewRequest
    \/ ChannelRequest

SpecFilters == Init /\ [][NextFilters]_vars

SaveRecentDoc == \E doc \in RecentDocs : Save(doc, MaxRecent)

RecommendationRequest ==
    \E campaignId \in CampaignIds \cup {NoId}, up \in BOOLEAN :
        GetRecommendations(campaignId, up)

NextRecent ==
    \/ SaveRecentDoc
    \/ RecommendationRequest

SpecRecent == Init /\ [][NextRecent]_vars

----------------------------------------------------------------------------
SaveThresholdDoc == \E doc \in ThresholdDocs : Save(doc, MaxThresholdRecords)

ThresholdRequest ==
    \E campaignId \in {"c1", NoId}, up \in BOOLEAN :
        GetRecommendations(campaignId, up)

NextThreshold ==
    \/ SaveThresholdDoc
    \/ ThresholdRequest

SpecThreshold == Init /\ [][NextThreshold]_vars

SaveWindowDoc == \E doc \in WindowDocs : Save(doc, MaxWindowRecords)

NextWindow ==
    \/ SaveWindowDoc
    \/ RecommendationRequest

SpecWindow == Init /\ [][NextWindow]_vars

SaveStoredDoc == \E doc \in StoredDocs : Save(doc, MaxStored)

AnyOverviewRequest ==
    \E companyId \in {"co1", NoId}, up \in BOOLEAN :
        GetOverview(companyId, NoDate, NoDate, up)

AnyCampaignRequest ==
    \E campaignId \in {"c1", NoId}, up \in BOOLEAN :
        GetCampaignAnalytics(campaignId, NoDate, NoDate, up)

AnyChannelRequest ==
    \E campaignId \in {"c1", NoId}, up \in BOOLEAN :
        GetChannelAnalytics(NoId, campaignId, NoDate, NoDate, up)

AnyRecommendationRequest ==
    \E campaignId \in {"c1", NoId}, up \in BOOLEAN :
        GetRecommendations(campaignId, up)

NextAnalytics ==
    \/ SaveStoredDoc
    \/ AnyOverviewRequest
    \/ AnyCampaignRequest
    \/ AnyChannelRequest
    \/ AnyRecommendationRequest

SpecAnalytics == Init /\ [][NextAnalytics]_vars

\* The paths requested: those the interface lists and those the routers
\* declare under their mount.
Paths ==
    LET listed == {<<"analytics", "overview">>, <<"analytics", "campaign", "c1">>,
                   <<"analytics", "channels">>,
                   <<"analytics", "recommendations">>}
    IN  listed \cup {AnalyticsMount \o path : path \in listed}

ReceiveRequest == \E path \in Paths : Receive(path)

NextRoutes ==
    \/ SaveStoredDoc
    \/ ReceiveRequest
    \/ RouteOverview
    \/ RouteCampaign
    \/ RouteChannels
    \/ RouteRecommendations
    \/ RouteNone

SpecRoutes == Init /\ [][NextRoutes]_vars

CollectMetrics ==
    \E campaign \in Campaigns, fetched \in [Channels -> BOOLEAN] :
        CollectCampaignMetrics(campaign, fetched)

NextAgent ==
    \/ SaveStoredDoc
    \/ CollectMetrics

SpecAgent == Init /\ [][NextAgent]_vars

\* An ObjectId no document of the collection has yet.
FreshIds(ids, docs) == ids \ {doc._id : doc \in docs}

CreateContentRequest ==
    \E companyId \in CompanyIds, campaignId \in CampaignIds,
       contentData \in {[type |-> "text", text |-> "a"], [text |-> "a"]},
       id \in FreshIds(ContentIds, contents), up \in BOOLEAN :
        /\ Cardinality(contents) < MaxContents
        /\ CreateContent(companyId, campaignId, contentData, id, up)

ContentListRequest ==
    \E companyId \in CompanyIds, campaignId \in CampaignIds, up \in BOOLEAN :
        GetContentList(companyId, campaignId, up)

ContentItemRequest ==
    \E companyId \in CompanyIds, campaignId \in CampaignIds,
       contentId \in ContentIds, up \in BOOLEAN :
        \/ GetContentById(companyId, campaignId, contentId, up)
        \/ \E text \in Texts :
               UpdateContent(companyId, campaignId, contentId,
                             [text |-> text], up)
        \/ DeleteContent(companyId, campaignId, contentId, up)
        \/ ApproveContent(companyId, campaignId, contentId, up)
        \/ RejectContent(companyId, campaignId, contentId, up)

NextContents ==
    \/ CreateContentRequest
    \/ ContentListRequest
    \/ ContentItemRequest

SpecContents == Init /\ [][NextContents]_vars

\* Requests in which an identifier may be missing, over collections of at
\* most one document each.
GuardedCompanyRequest ==
    \E up \in BOOLEAN :
        \/ \E companyData \in {[name |-> "Acme"], [industry |-> "retail"]},
              id \in FreshIds({"co1"}, companies) :
               CreateCompany(companyData, id, up)
        \/ \E companyId \in {"co1", "co2", NoId} :
               \/ GetCompanyById(companyId, up)
               \/ UpdateCompany(companyId, [industry |-> "retail"], up)
               \/ DeleteCompany(companyId, up)

GuardedContentRequest ==
    \E companyId \in {"co1", NoId}, campaignId \in {"c1", NoId},
       up \in BOOLEAN :
        \/ \E contentData \in {[type |-> "text", text |-> "a"], [text |-> "a"]},
              id \in FreshIds({"k1"}, contents) :
               CreateContent(companyId, campaignId, contentData, id, up)
        \/ GetContentList(companyId, campaignId, up)
        \/ \E contentId \in {"k1", "k2", NoId} :
               \/ GetContentById(companyId, campaignId, contentId, up)
               \/ UpdateContent(companyId, campaignId, contentId,
                                [text |-> "b"], up)
               \/ DeleteContent(companyId, campaignId, contentId, up)
               \/ ApproveContent(companyId, campaignId, contentId, up)
               \/ RejectContent(companyId, campaignId, contentId, up)

GuardedIntegrationRequest ==
    \E up \in BOOLEAN :
        \/ \E companyId \in {"co1", NoId} :
               \/ GetIntegrations(companyId, up)
               \/ \E integrationData \in {[platform |-> "GoogleAds"],
                                          [accountId |-> "a1"]},
                     id \in FreshIds({"i1"}, integrations) :
                      CreateIntegration(companyId, integrationData, id, up)
        \/ \E integrationId \in {"i1", "i2", NoId} :
               \/ GetIntegrationById(integrationId, up)
               \/ \E code \in Codes \cup {NoId} :
                      HandleOAuthRedirect(integrationId, code, up)

NextGuards ==
    \/ GuardedCompanyRequest
    \/ GuardedContentRequest
    \/ GuardedIntegrationRequest
    \/ AnyCampaignRequest

SpecGuards == Init /\ [][NextGuards]_vars

\* Time passes.
Tick ==
    /\ clock < MaxClock
    /\ clock' = clock + 1
    /\ UNCHANGED <<store, req, res, dbUp, dbCalls, matched, averageCPC, url,
                   companies, contents, integrations, run, users, pending,
                   job>>

\* POST /companies with a body that may carry a createdAt of its own.
TimedCompanyRequest ==
    \E name \in Names, id \in FreshIds(CompanyIds, companies),
       up \in BOOLEAN :
        \/ CreateCompany([name |-> name], id, up)
        \/ CreateCompany([name |-> name, createdAt |-> 2], id, up)

\* An integration is created, and saved again by each OAuth callback.
TimedIntegrationRequest ==
    \E up \in BOOLEAN :
        \/ \E id \in FreshIds({"i1"}, integrations) :
               CreateIntegration("co1", [platform |-> "GoogleAds"], id, up)
        \/ HandleOAuthRedirect("i1", "code1", up)

NextTimestamps ==
    \/ Tick
    \/ TimedCompanyRequest
    \/ TimedIntegrationRequest

SpecTimestamps == Init /\ [][NextTimestamps]_vars

\* Register calls on two connections, their awaits interleaved, with logins
\* and profile requests between them.
RegisterRequest ==
    \E connection \in Connections,
       credentials \in {<<"a@x.io", "pw1">>, <<"A@x.io", "pw1">>,
                        <<NoId, "pw1">>, <<"a@x.io", NoId>>},
       firstName \in FirstNames, lastName \in LastNames :
        Register(connection,
                 [email |-> credentials[1], password |-> credentials[2],
                  firstName |-> firstName, lastName |-> lastName])

RegisterFound ==
    \E connection \in Connections, up \in BOOLEAN, cast \in BOOLEAN :
        RegisterFindOne(connection, up, cast)

RegisterSaved ==
    \E connection \in Connections, up \in BOOLEAN,
       id \in FreshIds(UserIds, users) :
        RegisterSave(connection, up, id)

LoginRequest ==
    \E email \in Emails \cup {NoId}, password \in Passwords \cup {NoId},
       up \in BOOLEAN, cast \in BOOLEAN :
        Login([email |-> email, password |-> password], up, cast)

ProfileRequest ==
    \E userId \in UserIds \cup {NoId}, up \in BOOLEAN :
        GetProfile(userId, up)

NextAuth ==
    \/ RegisterRequest
    \/ RegisterFound
    \/ RegisterSaved
    \/ LoginRequest
    \/ ProfileRequest

SpecAuth == Init /\ [][NextAuth]_vars

\* Content items are created in any workflow status the body names, and
\* approved and rejected.
WorkflowCreate ==
    \E campaignId \in CampaignIds,
       contentData \in {[type |-> "text", text |-> "a"],
                        [type |-> "text", text |-> "a", status |-> "posted"]},
       id \in FreshIds(ContentIds, contents) :
        /\ Cardinality(contents) < MaxContents
        /\ CreateContent(CampaignCompany[campaignId], campaignId, contentData,
                         id, TRUE)

WorkflowDecision ==
    \E campaignId \in CampaignIds, contentId \in ContentIds, up \in BOOLEAN :
        \/ ApproveContent(CampaignCompany[campaignId], campaignId, contentId,
                          up)
        \/ RejectContent(CampaignCompany[campaignId], campaignId, contentId,
                         up)

NextWorkflow ==
    \/ WorkflowCreate
    \/ WorkflowDecision

SpecWorkflow == Init /\ [][NextWorkflow]_vars

\* Companies, users and integrations are created, read, updated and
\* deleted by id; the ids asked for are the one a document can have and one
\* that no document has.
LifecycleCompany ==
    \E up \in BOOLEAN :
        \/ \E id \in FreshIds({"co1"}, companies) :
               CreateCompany([name |-> "Acme"], id, up)
        \/ \E companyId \in CompanyIds :
               \/ GetCompanyById(companyId, up)
               \/ UpdateCompany(companyId, [industry |-> "retail"], up)
               \/ DeleteCompany(companyId, up)

LifecycleRegister ==
    \/ \E firstName \in FirstNames, lastName \in LastNames :
           Register("x1", [email |-> "a@x.io", password |-> "pw1",
                           firstName |-> firstName, lastName |-> lastName])
    \/ \E up \in BOOLEAN : RegisterFindOne("x1", up, TRUE)
    \/ \E up \in BOOLEAN, id \in FreshIds({"u1"}, users) :
           RegisterSave("x1", up, id)

LifecycleUser ==
    \E up \in BOOLEAN, userId \in UserIds :
        \/ GetUserById(userId, up)
        \/ UpdateUser(userId, [role |-> "admin"], up)
        \/ DeleteUser(userId, up)

LifecycleIntegration ==
    \E up \in BOOLEAN :
        \/ \E id \in FreshIds({"i1"}, integrations) :
               CreateIntegration("co1", [platform |-> "GoogleAds"], id, up)
        \/ \E integrationId \in IntegrationIds :
               \/ GetIntegrationById(integrationId, up)
               \/ UpdateIntegration(integrationId, [status |-> "inactive"],
                                    up)
               \/ DeleteIntegration(integrationId, up)

NextLifecycle ==
    \/ LifecycleCompany
    \/ LifecycleRegister
    \/ LifecycleUser
    \/ LifecycleIntegration

SpecLifecycle == Init /\ [][NextLifecycle]_vars

\* generatePlan is called with and without inputs, objective and budget,
\* with and without an LLM client, whose completion is any text of at most
\* MaxLines lines or a failure.
CompletionTexts == UNION {[1..n -> Lines] : n \in 0..MaxLines}

CampaignInputs ==
    {Null} \cup
    {[objective |-> objective, budget |-> budget] :
        objective \in {"awareness", NoId},
        budget \in {Null, [total |-> 100], [total |-> 100, dailyCap |-> 10]}}

PlanWithoutClient ==
    \E campaignInputs \in CampaignInputs :
        GeneratePlan(campaignInputs, FALSE, LlmFailure)

PlanWithClient ==
    \E campaignInputs \in CampaignInputs,
       completion \in {LlmFailure} \cup {Completion(text) : text \in CompletionTexts} :
        GeneratePlan(campaignInputs, TRUE, completion)

NextPlan ==
    \/ PlanWithoutClient
    \/ PlanWithClient

SpecPlan == Init /\ [][NextPlan]_vars

\* generateContentForPlan is called once, with no plan, a plan without
\* tasks or a plan of at most MaxTasks tasks; each generation succeeds or
\* fails.
Plans ==
    {Null, [strategySummary |-> "none"]} \cup
    {[strategySummary |-> "none", tasks |-> tasks] :
        tasks \in UNION {[1..n -> Tasks] : n \in 0..MaxTasks}}

ContentRequest == \E plan \in Plans : GenerateContentForPlan(plan)

ContentStep ==
    \E completion \in {LlmFailure, Completion(" Buy now ")} :
        ContentTask(completion)

NextContentAgent ==
    \/ ContentRequest
    \/ ContentStep
    \/ ContentDone

SpecContentAgent == Init /\ [][NextContentAgent]_vars

\* The three handlers that take a date range, asked with both bounds, one
\* bound or none.
DatedRequest ==
    \E start \in QueryDates, end \in QueryDates, up \in BOOLEAN :
        \/ \E companyId \in {"co1", NoId} :
               GetOverview(companyId, start, end, up)
        \/ \E campaignId \in CampaignIds :
               GetCampaignAnalytics(campaignId, start, end, up)
        \/ \E campaignId \in {"c1", NoId} :
               GetChannelAnalytics(NoId, campaignId, start, end, up)

NextDates ==
    \/ SaveStoredDoc
    \/ DatedRequest

SpecDates == Init /\ [][NextDates]_vars

\* One document is created, in any of the four collections and at any
\* time, and then updated any number of times while time passes.
NothingStored ==
    /\ companies = {} /\ users = {} /\ integrations = {} /\ contents = {}
    /\ pending["x1"] = Idle

UpdatesCreate ==
    /\ NothingStored
    /\ \/ CreateCompany([name |-> "Acme"], "co1", TRUE)
       \/ CreateIntegration("co1", [platform |-> "GoogleAds"], "i1", TRUE)
       \/ CreateContent("co1", "c1", [type |-> "text", text |-> "a"], "k1",
                        TRUE)
       \/ \E firstName \in FirstNames, lastName \in LastNames :
              Register("x1", [email |-> "a@x.io", password |-> "pw1",
                              firstName |-> firstName, lastName |-> lastName])

UpdatesRegister ==
    \/ RegisterFindOne("x1", TRUE, TRUE)
    \/ RegisterSave("x1", TRUE, "u1")

UpdatesRequest ==
    \/ \E updates \in {[industry |-> "retail"],
                       [industry |-> "retail", updatedAt |-> clock + 5]} :
           UpdateCompany("co1", updates, TRUE)
    \/ UpdateUser("u1", [role |-> "admin"], TRUE)
    \/ UpdateIntegration("i1", [status |-> "inactive"], TRUE)
    \/ UpdateContent("co1", "c1", "k1", [text |-> "b"], TRUE)
    \/ ApproveContent("co1", "c1", "k1", TRUE)
    \/ RejectContent("co1", "c1", "k1", TRUE)

NextUpdates ==
    \/ Tick
    \/ UpdatesCreate
    \/ UpdatesRegister
    \/ UpdatesRequest

SpecUpdates == Init /\ [][NextUpdates]_vars

(* The claims                                                              *)

\* The filter of the last request, in the claims' words: a dimension that
\* was given restricts the records, one that was not restricts nothing.
CompanyGiven == req.companyId # NoId
CampaignGiven == req.campaignId # NoId
RangeGiven == req.start # NoDate /\ req.end # NoDate

InCompany(doc) == CompanyGiven => doc.companyId = req.companyId
InCampaign(doc) == CampaignGiven => doc.campaignId = req.campaignId
InRange(doc) == RangeGiven => (req.start <= doc.date /\ doc.date <= req.end)

Filtered == {doc \in DOMAIN store : InCompany(doc) /\ InCampaign(doc) /\ InRange(doc)}

\* The sum of one field over the stored records of S, a record stored n
\* times counted n times.
RECURSIVE TotalOf(_, _)
TotalOf(S, field) ==
    IF S = {} THEN 0
    ELSE LET doc == CHOOSE d \in S : TRUE
         IN  store[doc] * doc[field] + TotalOf(S \ {doc}, field)

RECURSIVE RowTotal(_, _)
RowTotal(rows, field) ==
    IF Len(rows) = 0 THEN 0
    ELSE rows[1][field] + RowTotal(SubSeq(rows, 2, Len(rows)), field)

MetricFields == {"impressions", "clicks", "conversions", "cost"}

Answered(handler) == req.handler = handler /\ dbUp

\* C1: getOverview returns, for each of the four metrics, the sum of the
\* field over the stored records of the given company (when given) dated
\* within [start, end] (when the range is given), duplicates each counted;
\* with no such record all four totals are 0 and the answer is still 200.
C1_OverviewTotals ==
    Answered("getOverview") =>
        /\ res.status = 200
        /\ res.body.success
        /\ DOMAIN res.body.data = MetricFields
        /\ \A field \in MetricFields :
               res.body.data[field] = TotalOf(Filtered, field)
        /\ Filtered = {} =>
               \A field \in MetricFields : res.body.data[field] = 0

C1_Witness ==
    /\ Answered("getOverview")
    /\ CompanyGiven /\ RangeGiven
    /\ \E doc \in Filtered : store[doc] = 2
    /\ DOMAIN store \ Filtered # {}
    /\ res.status = 200
    /\ res.body.data.cost > 0

\* C2: for one filter (no campaignId), the channel breakdown has no row for
\* a channel absent from the filtered records, and each metric summed over
\* its rows equals getOverview's total for that filter.
C2_BreakdownSumsToOverview ==
    (Answered("getChannelAnalytics") /\ ~CampaignGiven) =>
        /\ res.status = 200
        /\ \A i \in DOMAIN res.body.data :
               \E doc \in Filtered : doc.channel = res.body.data[i].channel
        /\ \A field \in MetricFields :
               RowTotal(res.body.data, field) =
                   getOverview(store, TRUE,
                       [companyId |-> req.companyId, start |-> req.start,
                        end |-> req.end]).value[field]

C2_Witness ==
    /\ Answered("getChannelAnalytics") /\ ~CampaignGiven
    /\ CompanyGiven /\ RangeGiven
    /\ res.status = 200
    /\ Len(res.body.data) = 1
    /\ Cardinality(Filtered) = 2
    /\ res.body.data[1].cost = 10

\* C3: getChannelAnalytics returns one row per distinct channel among the
\* records matching the filters, each row holding that channel's sums; a
\* channel without a matching record has no row, and nothing matching
\* gives the empty list.
C3_OneRowPerChannel ==
    Answered("getChannelAnalytics") =>
        /\ res.status = 200
        /\ {res.body.data[i].channel : i \in DOMAIN res.body.data} =
               {doc.channel : doc \in Filtered}
        /\ Len(res.body.data) = Cardinality({doc.channel : doc \in Filtered})
        /\ \A i \in DOMAIN res.body.data : \A field \in MetricFields :
               res.body.data[i][field] =
                   TotalOf({doc \in Filtered :
                               doc.channel = res.body.data[i].channel}, field)
        /\ Filtered = {} => res.body.data = <<>>

C3_Witness ==
    /\ Answered("getChannelAnalytics")
    /\ CampaignGiven
    /\ res.status = 200
    /\ Len(res.body.data) = 1
    /\ \E doc \in DOMAIN store \ Filtered :
           doc.channel # res.body.data[1].channel

\* C4: in getOverview and getChannelAnalytics the records selected are the
\* stored records that meet every dimension given (company, campaign, date
\* range): a dimension left out excludes nothing, and leaves the given ones
\* in force.
C4_FiltersIndependent ==
    (Answered("getOverview") \/ Answered("getChannelAnalytics")) =>
        /\ BagToSet(matched) = Filtered
        /\ \A doc \in Filtered : matched[doc] = store[doc]
        /\ \A doc \in DOMAIN store :
               doc \in BagToSet(matched) <=>
                   /\ InCompany(doc)
                   /\ InCampaign(doc)
                   /\ InRange(doc)

C4_Witness ==
    /\ Answered("getChannelAnalytics")
    /\ CompanyGiven /\ CampaignGiven /\ ~RangeGiven
    /\ req.start # NoDate
    /\ BagToSet(matched) # {}
    /\ \E doc \in DOMAIN store : InCompany(doc) /\ ~InCampaign(doc)

\* C5: getCampaignAnalytics returns the stored records of the campaign
\* dated within the range (all of them without a range), each as stored
\* and as often as stored, in ascending date order.
C5_CampaignSeries ==
    (Answered("getCampaignAnalytics") /\ CampaignGiven) =>
        /\ res.status = 200
        /\ \A i \in DOMAIN res.body.data : res.body.data[i] \in Filtered
        /\ \A doc \in Filtered :
               Cardinality({i \in DOMAIN res.body.data :
                               res.body.data[i] = doc}) = store[doc]
        /\ \A i \in 1..(Len(res.body.data) - 1) :
               res.body.data[i].date <= res.body.data[i + 1].date

C5_Witness ==
    /\ Answered("getCampaignAnalytics") /\ CampaignGiven /\ RangeGiven
    /\ res.status = 200
    /\ Len(res.body.data) = 2
    /\ res.body.data[1].date < res.body.data[2].date
    /\ DOMAIN store \ Filtered # {}

\* C6: without a campaign identifier getCampaignAnalytics returns null
\* without throwing and without a store call, and the controller answers
\* 404 with {success: false, message}.
C6_MissingCampaignIs404 ==
    (req.handler = "getCampaignAnalytics" /\ ~CampaignGiven) =>
        /\ dbCalls = 0
        /\ res.status = 404
        /\ DOMAIN res.body = {"success", "message"}
        /\ ~res.body.success
        /\ \A outcome \in getCampaignAnalytics(store, dbUp,
                              [campaignId |-> req.campaignId,
                               start |-> req.start, end |-> req.end]) :
               ~outcome.threw /\ outcome.value = Null /\ outcome.calls = 0

C6_Witness ==
    /\ req.handler = "getCampaignAnalytics" /\ ~CampaignGiven
    /\ ~dbUp
    /\ DOMAIN store # {}
    /\ res.status = 404

\* C7: the campaign-series endpoint answers every not-found outcome, a null
\* result or an empty list, with 404 and {success: false, message}.
C7_NotFoundIs404 ==
    (Answered("getCampaignAnalytics") /\ (~CampaignGiven \/ Filtered = {})) =>
        /\ res.status = 404
        /\ ~res.body.success

\* C8: without a campaign identifier getRecommendations returns the same
\* two fixed strings whatever the store holds, and makes no store call.
C8_GenericRecommendations ==
    (req.handler = "getRecommendations" /\ ~CampaignGiven) =>
        /\ dbCalls = 0
        /\ res.status = 200
        /\ Len(res.body.data) = 2
        /\ {res.body.data[1], res.body.data[2]} =
               {"Consider shifting budget to high-conversion channels.",
                "Explore retargeting if conversions are below target."}

C8_Witness ==
    /\ req.handler = "getRecommendations" /\ ~CampaignGiven
    /\ ~dbUp
    /\ BagCardinality(store) > RecentLimit
    /\ res.status = 200

\* C9: for a campaign without a stored record getRecommendations returns
\* the one-element list holding the "no data" message, and throws nothing.
C9_NoDataRecommendation ==
    (Answered("getRecommendations") /\ CampaignGiven /\ Filtered = {}) =>
        /\ res.status = 200
        /\ res.body.success
        /\ res.body.data =
               <<"No recent analytics data available for this campaign.">>

C9_Witness ==
    /\ Answered("getRecommendations") /\ CampaignGiven /\ Filtered = {}
    /\ DOMAIN store # {}
    /\ res.status = 200

\* The denominators of the per-record quotients: max(clicks, 1).
Floor1(clicks) == IF clicks > 1 THEN clicks ELSE 1

RECURSIVE Product(_)
Product(S) ==
    IF S = {} THEN 1
    ELSE LET n == CHOOSE m \in S : TRUE IN n * Product(S \ {n})

\* Common denominator of the selected records' quotients.
CommonClicks == Product({Floor1(doc.clicks) : doc \in DOMAIN matched})

\* The quotients cost / max(clicks, 1) of the selected records, each times
\* CommonClicks, summed.
RECURSIVE ScaledCPCSum(_)
ScaledCPCSum(S) ==
    IF S = {} THEN 0
    ELSE LET doc == CHOOSE d \in S : TRUE
         IN  matched[doc] * doc.cost * (CommonClicks \div Floor1(doc.clicks))
             + ScaledCPCSum(S \ {doc})

\* How many of the selected records are among S.
RECURSIVE SelectedCount(_)
SelectedCount(S) ==
    IF S = {} THEN 0
    ELSE LET doc == CHOOSE d \in S : TRUE
         IN  matched[doc] + SelectedCount(S \ {doc})

\* C10: for a campaign with at least one record the value getRecommendations
\* branches on is the unweighted mean, over the records selected, of
\* cost / max(clicks, 1); a zero-click record contributes its whole cost.
C10_MeanOfPerRecordCPC ==
    (Answered("getRecommendations") /\ CampaignGiven /\ Filtered # {}) =>
        /\ BagCardinality(matched) > 0
        /\ averageCPC[2] > 0
        /\ averageCPC[1] * CommonClicks * BagCardinality(matched) =
               averageCPC[2] * ScaledCPCSum(DOMAIN matched)

\* clicks = [1, 2, 0, 1, 1, 1, 1] with cost 2 each: (2+1+2+2+2+2+2) / 7,
\* where total cost over total clicks is 14 / 7.
C10_Witness ==
    /\ Answered("getRecommendations") /\ CampaignGiven
    /\ BagCardinality(matched) = 7
    /\ \A doc \in DOMAIN matched : doc.cost = 2
    /\ SelectedCount({doc \in DOMAIN matched : doc.clicks = 1}) = 5
    /\ \E doc \in DOMAIN matched : doc.clicks = 2 /\ matched[doc] = 1
    /\ \E doc \in DOMAIN matched : doc.clicks = 0 /\ matched[doc] = 1
    /\ averageCPC = <<13, 7>>

\* Whether `phrase` occurs in `text`.
Contains(text, phrase) ==
    \E i \in 1..(Len(text) - Len(phrase) + 1) :
        SubSeq(text, i, i + Len(phrase) - 1) = phrase

\* The mean of cost / max(clicks, 1) over the selected records compared
\* with 2, both sides multiplied by CommonClicks and the record count.
MeanAboveThreshold ==
    ScaledCPCSum(DOMAIN matched) > 2 * CommonClicks * BagCardinality(matched)
MeanAtThreshold ==
    ScaledCPCSum(DOMAIN matched) = 2 * CommonClicks * BagCardinality(matched)

\* C11: for a campaign with records getRecommendations returns exactly one
\* string: the 'high average CPC' message if and only if the mean of the
\* per-record CPC is strictly greater than 2, the 'performing well' message
\* otherwise, a mean of exactly 2 included.
C11_StrictThreshold ==
    (Answered("getRecommendations") /\ CampaignGiven /\ Filtered # {}) =>
        /\ res.status = 200
        /\ Len(res.body.data) = 1
        /\ Contains(res.body.data[1], "has a high average CPC of $")
               <=> MeanAboveThreshold
        /\ Contains(res.body.data[1],
                    "is performing well with an average CPC of $")
               <=> ~MeanAboveThreshold

\* Records of CPC 1 and 3: the mean is exactly 2 and the campaign is
\* reported as performing well.
C11_Witness ==
    /\ Answered("getRecommendations") /\ CampaignGiven
    /\ BagCardinality(matched) = 2
    /\ \E doc \in DOMAIN matched : doc.cost = 3 /\ doc.clicks = 0
    /\ MeanAtThreshold
    /\ res.body.data =
           <<"Campaign c1 is performing well with an average CPC of $2.00"
             \o ". Consider increasing budget or expanding audience.">>

\* The stored records with one copy of `old` replaced by `new`.
Replaced(old, new) == (store (-) SetToBag({old})) (+) SetToBag({new})

\* The record `doc` with other clicks and cost.
Revisions(doc) ==
    {[doc EXCEPT !.clicks = clicks, !.cost = cost] :
        clicks \in 0..2, cost \in {1, 2, 5}} \ {doc}

\* The recommendations getRecommendations may return for the campaign of
\* the last request over the records `docs`.
Answers(docs) ==
    {outcome.value : outcome \in getRecommendations(docs, TRUE, req.campaignId)}

\* A record of another campaign, or one of this campaign older than each of
\* the 7 selected when the campaign has more than 7.
OutsideWindow(doc) ==
    \/ doc.campaignId # req.campaignId
    \/ /\ TotalOf(Filtered, "impressions") > 7 * 10
       /\ \A kept \in DOMAIN matched : doc.date < kept.date

\* C12: the campaign recommendation uses only the (at most) 7 records of
\* that campaign with the latest dates; changing cost or clicks of a record
\* of another campaign, or of one older than the 7 most recent, leaves the
\* recommendation as it was.
C12_OnlySevenMostRecent ==
    (Answered("getRecommendations") /\ CampaignGiven) =>
        /\ BagCardinality(matched) <= 7
        /\ \A doc \in DOMAIN matched :
               doc \in Filtered /\ matched[doc] <= store[doc]
        /\ \A doc \in Filtered :
               store[doc] > CopiesIn(doc, matched) =>
                   /\ BagCardinality(matched) = 7
                   /\ \A kept \in DOMAIN matched : kept.date >= doc.date
        /\ \A old \in DOMAIN store :
               OutsideWindow(old) =>
                   \A new \in Revisions(old) :
                       /\ res.body.data \in Answers(Replaced(old, new))
                       /\ Answers(Replaced(old, new)) = Answers(store)

\* Eight records of the campaign, the seven of the later date selected and
\* one of the earlier date left out.
C12_Witness ==
    /\ Answered("getRecommendations") /\ CampaignGiven
    /\ BagCardinality(store) = 8
    /\ DOMAIN store = Filtered
    /\ BagCardinality(matched) = 7
    /\ \E old \in DOMAIN store :
           /\ old.date = 1
           /\ OutsideWindow(old)
           /\ \A kept \in DOMAIN matched : kept.date = 2

AnalyticsOperations ==
    {"getOverview", "getCampaignAnalytics", "getChannelAnalytics",
     "getRecommendations"}

\* C13: the four analytics operations are read-only: a call to any of them,
\* with any arguments and whether it succeeds or fails, leaves the stored
\* analytics records, and every field of each, as they were.
C13_ReadOnly ==
    [][req'.handler \in AnalyticsOperations => store' = store]_vars

\* A channel breakdown read from both stored records, which are still
\* stored.
C13_Witness ==
    /\ req.handler = "getChannelAnalytics"
    /\ res.status = 200
    /\ BagCardinality(matched) = 2
    /\ store = matched

\* The message each handler sends for a failure it caught.
FailureMessage ==
    [getOverview |-> "Failed to retrieve analytics overview.",
     getCampaignAnalytics |-> "Failed to retrieve campaign analytics.",
     getChannelAnalytics |-> "Failed to retrieve channel analytics.",
     getRecommendations |-> "Failed to retrieve analytics recommendations."]

\* C14: when the store call of an analytics endpoint fails the handler makes
\* no second call and answers 500 with {success: false, message}, the
\* message being the endpoint's fixed string and nothing else.
C14_StoreFailureIs500 ==
    (req.handler \in AnalyticsOperations /\ ~dbUp /\ dbCalls > 0) =>
        /\ dbCalls = 1
        /\ res = [status |-> 500,
                  body |-> [success |-> FALSE,
                            message |-> FailureMessage[req.handler]]]

C14_Witness ==
    /\ req.handler = "getRecommendations"
    /\ CampaignGiven
    /\ ~dbUp
    /\ dbCalls = 1
    /\ res.status = 500
    /\ BagCardinality(store) = 2

\* The request for `path` has been answered.
Served(path) == url = path /\ req.handler \notin {"route", "save"}

\* C17: with the routers mounted as in routes/index.js, GET
\* /analytics/overview reaches the overview handler, GET
\* /analytics/campaign/:campaignId the campaign-series handler, GET
\* /analytics/channels the channel-breakdown handler and GET
\* /analytics/recommendations the recommendation handler.
C17_RoutesAsListed ==
    /\ Served(<<"analytics", "overview">>) => req.handler = "getOverview"
    /\ Served(<<"analytics", "campaign", "c1">>) =>
           (req.handler = "getCampaignAnalytics" /\ req.campaignId = "c1")
    /\ Served(<<"analytics", "channels">>) =>
           req.handler = "getChannelAnalytics"
    /\ Served(<<"analytics", "recommendations">>) =>
           req.handler = "getRecommendations"

\* The records the last collection run added to the store.
Added == run.after (-) run.before

\* C18: a run of collectCampaignMetrics whose platform fetches succeed
\* completes without error and adds one analytics record per channel of the
\* campaign, carrying that channel's impressions, clicks, conversions and
\* cost.
C18_OneRecordPerChannel ==
    (run.state # "none" /\ run.fetchesOk) =>
        /\ run.state = "resolved"
        /\ BagCardinality(Added) = Cardinality(run.campaign.channels)
        /\ \A channel \in run.campaign.channels :
               \E doc \in DOMAIN Added :
                   /\ doc.campaignId = run.campaign._id
                   /\ doc.channel = channel
                   /\ \A field \in MetricFields :
                          doc[field] = PlatformMetrics[field]

\* Whether the last request was served by a company, content or integration
\* handler, and the route parameter `name` of that request.
EntityServed == "params" \in DOMAIN req
Param(name) ==
    IF EntityServed /\ name \in DOMAIN req.params THEN req.params[name]
    ELSE NoId

CompanyHandlers == {"getCompanyById", "updateCompany", "deleteCompany"}
ContentHandlers ==
    {"createContent", "getContentList", "getContentById", "updateContent",
     "deleteContent", "approveContent", "rejectContent"}
ItemHandlers ==
    {"getContentById", "updateContent", "deleteContent", "approveContent",
     "rejectContent"}
IntegrationHandlers ==
    {"getIntegrations", "createIntegration", "getIntegrationById",
     "handleOAuthRedirect"}

\* The last request went to a function that takes an identifier, and an
\* identifier it takes was missing.
IdentifierMissing ==
    \/ req.handler \in CompanyHandlers /\ Param("companyId") = NoId
    \/ /\ req.handler \in ContentHandlers
       /\ \/ Param("companyId") = NoId
          \/ Param("campaignId") = NoId
          \/ req.handler \in ItemHandlers /\ Param("contentId") = NoId
    \/ /\ req.handler \in {"getIntegrations", "createIntegration"}
       /\ Param("companyId") = NoId
    \/ /\ req.handler \in {"getIntegrationById", "handleOAuthRedirect"}
       /\ Param("integrationId") = NoId
    \/ req.handler = "getCampaignAnalytics" /\ req.campaignId = NoId

\* The body field the controller itself tests before it calls the service
\* is absent.
BodyRejected ==
    \/ req.handler = "createContent" /\ "type" \notin DOMAIN req.body
    \/ req.handler = "createIntegration" /\ "platform" \notin DOMAIN req.body

\* The message of each handler's catch.
CatchMessage ==
    [getCompanyById |-> "Failed to retrieve company.",
     updateCompany |-> "Failed to update company.",
     deleteCompany |-> "Failed to delete company.",
     createContent |-> "Failed to create content.",
     getContentList |-> "Failed to retrieve content list.",
     getContentById |-> "Failed to retrieve content.",
     updateContent |-> "Failed to update content.",
     deleteContent |-> "Failed to delete content.",
     approveContent |-> "Failed to approve content.",
     rejectContent |-> "Failed to reject content.",
     getIntegrations |-> "Failed to retrieve integrations.",
     createIntegration |-> "Failed to create integration.",
     getIntegrationById |-> "Failed to retrieve integration.",
     handleOAuthRedirect |-> "Failed to handle OAuth redirect."]

LookupMissed ==
    /\ EntityServed
    /\ dbUp
    /\ ~IdentifierMissing
    /\ \/ /\ req.handler \in CompanyHandlers
          /\ \A doc \in companies : doc._id # Param("companyId")
       \/ /\ req.handler \in ItemHandlers
          /\ \A doc \in contents :
                 ~(doc._id = Param("contentId")
                   /\ doc.campaignId = Param("campaignId"))
       \/ /\ req.handler = "getIntegrationById"
          /\ \A doc \in integrations : doc._id # Param("integrationId")
       \/ /\ req.handler = "handleOAuthRedirect"
          /\ req.body.code # NoId
          /\ \A doc \in integrations : doc._id # Param("integrationId")

\* A delete that succeeded has removed its document: only an answer other
\* than 200 tells of a miss.
Deleting == req.handler \in {"deleteCompany", "deleteContent"}

\* C16: in every controller a request whose lookup finds no document (get,
\* update, delete, approve, reject, the OAuth redirect for an unknown
\* integrationId) is answered 404 with {success: false, message}, and with
\* no other status.
C16_LookupMissIs404 ==
    (LookupMissed /\ (Deleting => res.status # 200)) =>
        /\ res.status = 404
        /\ ~res.body.success

\* C20: getContentById, updateContent, deleteContent, approveContent and
\* rejectContent act on a content item only if it belongs to the campaign
\* and to the company named in the request: a request that names another
\* campaign, or a campaign of another company, is not answered 200 and is
\* given no item.
C20_ScopedToCampaignAndCompany ==
    (req.handler \in ItemHandlers /\ res.status = 200) =>
        /\ CampaignCompany[req.params.campaignId] = req.params.companyId
        /\ req.handler # "deleteContent" =>
               /\ res.body.data._id = req.params.contentId
               /\ res.body.data.campaignId = req.params.campaignId

\* C19: every save of an entity document sets its updatedAt to the time of
\* the save, so that every saved document has an updatedAt, which is never
\* earlier than its createdAt.
C19_UpdatedAtNotBeforeCreatedAt ==
    \A doc \in companies \cup integrations :
        /\ doc.updatedAt # NoDate
        /\ doc.updatedAt <= clock
        /\ doc.updatedAt >= doc.createdAt

(* C21 *)

\* The connections whose register call has answered with `status`.
AnsweredWith(status) ==
    {connection \in Connections :
        /\ pending[connection].pc = "done"
        /\ pending[connection].status = status}

\* The stored form of the email a connection's register call carries.
EmailOf(connection) == Lowercase(pending[connection].body.email)

\* No two user documents share an email.
EmailsDistinct ==
    \A user, other \in users : user.email = other.email => user = other

\* No two connections hold a 201 for the same email.
One201PerEmail ==
    \A connection, other \in AnsweredWith(201) :
        EmailOf(connection) = EmailOf(other) => connection = other

\* The register call on `connection` answers in this step, its store calls
\* having resolved, for an email that a user already has.
AnswersTaken(connection) ==
    /\ pending[connection].pc \in {"findOne", "save"}
    /\ pending'[connection].pc = "done"
    /\ dbUp'
    /\ \E user \in users : user.email = EmailOf(connection)

\* C21: registration never yields two users with the same email: a register
\* call for an email that already has a user creates no user and is answered
\* 409, and however the awaits of two register calls for the same new email
\* interleave, at most one user document with that email exists afterwards
\* and at most one of the calls is answered 201.
C21_RegisterOncePerEmail ==
    [][/\ EmailsDistinct'
       /\ One201PerEmail'
       /\ \A connection \in Connections :
              AnswersTaken(connection) =>
                  /\ res'.status = 409
                  /\ users' = users]_vars

\* Two register calls for the same new email have raced: both passed
\* findOne, one was answered 201 and the other, rejected by the index at
\* save, 409.
C21_Witness ==
    /\ pending["x1"].pc = "done"
    /\ pending["x2"].pc = "done"
    /\ pending["x1"].status = 201
    /\ pending["x2"].status = 409
    /\ EmailOf("x1") = EmailOf("x2")
    /\ req.handler = "register"
    /\ res.status = 409
    /\ dbCalls = 2
    /\ Cardinality(users) = 1

(* C22 *)

\* The users a login with these credentials can be for: findOne matches the
\* email as given or, when the query runs the setters, lowercased.
Holders(email, password) ==
    {user \in users :
        /\ user.email \in {email, Lowercase(email)}
        /\ user.passwordHash = Hash(password)}

\* The data of a response that has any.
Disclosed ==
    IF res.status \notin {200, 201} THEN {}
    ELSE IF req.handler = "login" THEN {res.body.data.user}
    ELSE {res.body.data}

\* C22: loginUser issues a token only when a user with the given email
\* exists and the password matches its stored hash; for an unknown email
\* and for a known email with a wrong password the service result is the
\* same {token: null, user: null} and the response the same 401 "Invalid
\* credentials."; and no response of login, register or getProfile carries
\* the passwordHash field.
C22_LoginOnlyWithMatchingPassword ==
    /\ \A email \in Emails, password \in Passwords, cast \in BOOLEAN :
           LET result == loginUser(users, TRUE, email, password, cast)
           IN  /\ ~result.threw
               /\ result.value.token # Null =>
                      \E user \in Holders(email, password) :
                          result.value.token = Token(user)
               /\ Holders(email, password) = {} => result.value = NoLogin
    /\ (req.handler = "login" /\ res.status = 200) =>
           \E user \in Holders(req.body.email, req.body.password) :
               res.body.data.token = Token(user)
    /\ (/\ req.handler = "login"
        /\ dbUp
        /\ req.body.email # NoId
        /\ req.body.password # NoId
        /\ Holders(req.body.email, req.body.password) = {}) =>
           res = Failure(401, "Invalid credentials.")
    /\ req.handler \in {"login", "register", "getProfile"} =>
           \A data \in Disclosed : "passwordHash" \notin DOMAIN data

\* A login for a registered email with a password that is not the user's
\* has been answered 401.
C22_Witness ==
    /\ req.handler = "login"
    /\ res.status = 401
    /\ \E user \in users :
           /\ user.email = req.body.email
           /\ user.passwordHash # Hash(req.body.password)

(* C23 *)

\* The status each of the two handlers sets.
Decision ==
    ("approveContent" :> "approved") @@ ("rejectContent" :> "rejected")

\* The items the filter of a decision request selects, before the step.
Decided ==
    {doc \in contents :
        /\ doc._id = req'.params.contentId
        /\ doc.campaignId = req'.params.campaignId}

\* C23: approveContent (rejectContent) on an existing item of the given
\* campaign sets its status to "approved" ("rejected") whatever its status
\* was, changes no other field and no other item, and doing it twice is the
\* same as doing it once; when no item has the contentId and campaignId the
\* service returns null, the answer is 404 and no document changes.
C23_DecisionSetsStatusOnly ==
    [][(req'.handler \in DOMAIN Decision /\ dbUp') =>
          /\ IF Decided = {}
             THEN /\ res'.status = 404
                  /\ contents' = contents
             ELSE \E doc \in Decided :
                      LET decided ==
                              [doc EXCEPT !.status = Decision[req'.handler]]
                      IN  /\ res'.status = 200
                          /\ res'.body.data = decided
                          /\ contents' = (contents \ {doc}) \cup {decided}
          /\ \A campaignId \in CampaignIds, contentId \in ContentIds :
                 LET approved == approveContent(contents, TRUE, "co1",
                                                campaignId, contentId)
                     rejected == rejectContent(contents, TRUE, "co1",
                                               campaignId, contentId)
                 IN  /\ approveContent(approved.docs, TRUE, "co1",
                                       campaignId, contentId) = approved
                     /\ rejectContent(rejected.docs, TRUE, "co1",
                                      campaignId, contentId) = rejected]_vars

\* An item has been approved and answered with, while the other item, of
\* the other campaign, kept the status it was posted with.
C23_Witness ==
    /\ req.handler = "approveContent"
    /\ res.status = 200
    /\ res.body.data \in contents
    /\ res.body.data.status = "approved"
    /\ \E other \in contents :
           /\ other._id # res.body.data._id
           /\ other.status = "posted"

(* C24 *)

\* The three collections by name, the collection each by-id handler works
\* on and the route parameter that carries the id.
Collections ==
    [companies |-> companies, users |-> users, integrations |-> integrations]

ById ==
    [getCompanyById |-> <<"companies", "companyId">>,
     updateCompany |-> <<"companies", "companyId">>,
     deleteCompany |-> <<"companies", "companyId">>,
     getUserById |-> <<"users", "userId">>,
     updateUser |-> <<"users", "userId">>,
     deleteUser |-> <<"users", "userId">>,
     getIntegrationById |-> <<"integrations", "integrationId">>,
     updateIntegration |-> <<"integrations", "integrationId">>,
     deleteIntegration |-> <<"integrations", "integrationId">>]

Deletes == {"deleteCompany", "deleteUser", "deleteIntegration"}

\* The documents with the id a by-id request names, before the step.
Named ==
    {doc \in Collections[ById[req'.handler][1]] :
        doc._id = req'.params[ById[req'.handler][2]]}

\* What the three service functions return for `id` on a collection.
Lookups(kind, docs, id) ==
    IF kind = "companies"
    THEN <<getCompanyById(docs, TRUE, id).value,
           updateCompany(docs, TRUE, id, [industry |-> "retail"]).value,
           deleteCompany(docs, TRUE, id).value>>
    ELSE IF kind = "users"
    THEN <<getUserById(docs, TRUE, id).value,
           updateUser(docs, TRUE, id, [role |-> "admin"]).value,
           deleteUser(docs, TRUE, id).value>>
    ELSE <<getIntegrationById(docs, TRUE, id).value,
           updateIntegration(docs, TRUE, id, [status |-> "inactive"]).value,
           deleteIntegration(docs, TRUE, id).value>>

InputsValid ==
    IF job.inputs = Null THEN FALSE
    ELSE job.inputs.objective # NoId /\ job.inputs.budget # Null

RECURSIVE Generating(_, _)
Generating(tasks, n) ==
    IF n = 0 THEN <<>>
    ELSE IF tasks[n].type \in {"socialPost", "image"}
    THEN Append(Generating(tasks, n - 1), n)
    ELSE Generating(tasks, n - 1)

\* The type of the item made for a task.
ItemType == ("socialPost" :> "text") @@ ("image" :> "image")

\* C26: generateContentForPlan processes plan.tasks one at a time in list
\* order; on success the result has one item per task of type "socialPost"
\* or "image", in the order of the tasks, tasks of any other type add
\* nothing and a plan without tasks gives the empty list; if generation
\* fails for a task the call rejects, returns no partial result and
\* attempts no later task.
C26_ContentInTaskOrder ==
    job.agent = "content" =>
        /\ job.state = "running" =>
               job.calls = Generating(job.tasks, job.next - 1)
        /\ job.state = "resolved" =>
               LET generating == Generating(job.tasks, Len(job.tasks))
               IN  /\ job.calls = generating
                   /\ Len(job.value) = Len(generating)
                   /\ \A i \in 1..Len(generating) :
                          LET task == job.tasks[generating[i]]
                          IN  /\ job.value[i].type = ItemType[task.type]
                              /\ job.value[i].channel = task.channel
                   /\ job.tasks = <<>> => job.value = <<>>
        /\ job.state = "rejected" =>
               /\ "value" \notin DOMAIN job
               /\ job.tasks # <<>> =>
                      /\ job.calls = Generating(job.tasks, job.next)
                      /\ job.calls # <<>>
                      /\ job.calls[Len(job.calls)] = job.next

\* The first task's content was generated, the second task's generation
\* failed with a third task still to come: the call has rejected.
C26_Witness ==
    /\ job.agent = "content"
    /\ job.state = "rejected"
    /\ Len(job.tasks) = 3
    /\ job.calls = <<1, 2>>
    /\ Len(job.results) = 1

(* C27 *)

DatedHandlers == {"getOverview", "getCampaignAnalytics", "getChannelAnalytics"}

\* Exactly one of start and end was supplied.
OneBoundOnly == (req.start # NoDate) # (req.end # NoDate)

\* C27: in getOverview, getCampaignAnalytics and getChannelAnalytics the
\* date restriction applies only when both start and end are supplied: with
\* exactly one of them the bound is ignored and the records of every date
\* are selected, as if neither had been given.
C27_OneBoundIsIgnored ==
    (req.handler \in DatedHandlers /\ dbUp /\ OneBoundOnly) =>
        /\ BagToSet(matched) =
               {doc \in DOMAIN store : InCompany(doc) /\ InCampaign(doc)}
        /\ \A doc \in BagToSet(matched) : matched[doc] = store[doc]

\* getCampaignAnalytics was asked with a start and no end, and selected a
\* record dated before that start.
C27_Witness ==
    /\ Answered("getCampaignAnalytics")
    /\ req.start # NoDate
    /\ req.end = NoDate
    /\ \E doc \in BagToSet(matched) : doc.date < req.start

(* C28 *)

UpdateOperations ==
    {"updateCompany", "updateUser", "updateIntegration", "updateContent",
     "approveContent", "rejectContent"}

\* The documents of the four collections.
Stored == companies \cup users \cup integrations \cup contents

\* The update payload of the request sets updatedAt on this document.
SetsUpdatedAt(request, doc) ==
    /\ "updatedAt" \in DOMAIN request.body
    /\ \E name \in DOMAIN request.params : request.params[name] = doc._id

\* C28: the service update operations (updateCompany, updateUser,
\* updateIntegration, updateContent, approveContent, rejectContent) write
\* through a direct store update that passes by the save hook, so they leave
\* updatedAt as it was unless the update payload sets it: after create and
\* any number of such updates, updatedAt is still the value written at
\* creation.
C28_UpdatesKeepUpdatedAt ==
    [][req'.handler \in UpdateOperations =>
          \A after \in Stored' :
              \E before \in Stored :
                  /\ before._id = after._id
                  /\ after.createdAt = before.createdAt
                  /\ after.updatedAt =
                         IF SetsUpdatedAt(req', after)
                         THEN req'.body.updatedAt
                         ELSE before.updatedAt]_vars

\* A company created earlier has been updated, and its updatedAt is still
\* the time of its creation.
C28_Witness ==
    /\ req.handler = "updateCompany"
    /\ res.status = 200
    /\ clock > 1
    /\ \E company \in companies :
           /\ company.industry = "retail"
           /\ company.updatedAt = company.createdAt
           /\ res.body.data = company

====
